---- MODULE Spec2Model ----
(***************************************************************************)
(* A model of the beacon chain orchestrator (BeaconChain) of               *)
(* chain/beacon/src/beacon_chain.rs and of the per-slot state transition   *)
(* of chain/eth2/state_processing/src/per_slot_processing.rs.              *)
(*                                                                         *)
(* The chain is shared by threads; every access to one of its locked       *)
(* resources (Store, fork choice, canonical head, working state, slot      *)
(* clock) is one step of the calling thread, so that calls interleave at   *)
(* exactly the places where the code takes and drops a lock.               *)
(***************************************************************************)
EXTENDS Naturals, Integers, Sequences, FiniteSets, TLC

\* ------------------------------------------------------------------ bounds

\* The slot clock counts 0..MaxSlot; candidate blocks carry a slot in 0..MaxSlot.
MaxSlot == 2

\* At most this many calls (process_block, fork_choice) are started in one
\* behaviour.
MaxCalls == 2

\* At most this many calls of a collaborator fail in one behaviour: a Store
\* get or put, fork choice, the slot clock, the epoch transition.
MaxFaults == 1

\* At most this many process_block calls are made, one after another, in a
\* behaviour of ResubmitSpec.
MaxResubmitCalls == 3

\* Calls of per_slot_processing one caller makes on its state.
MaxTransitions == 3

\* The slots the working state is at when block roots are asked for, and the
\* largest count and skip asked for.
MaxRootsSlot == 4

MaxCount == 2

MaxSkip == 1

\* The highest slot of a state an exit is verified against.
MaxExitSlot == 5

\* spec.persistent_committee_period, in epochs.
PersistentCommitteePeriod == 1

\* The highest epoch an exit names.
MaxExitEpoch == 2

\* The largest small list that is shuffled and the largest round count.
MaxListSize == 3

MaxRounds == 2

\* usize::MAX, of a usize of two bits: the largest count and skip a caller
\* of get_block_roots can pass.
UsizeMax == 2

\* ChainSpec::slots_per_epoch and EthSpec::SlotsPerHistoricalRoot (small here).
SlotsPerEpoch == 2

SlotsPerHistoricalRoot == 2

\* The threads that call into the chain.
Threads == {"t1", "t2"}

\* ------------------------------------------------------------------ hashing

\* Hash256 values. A root is the hashed content wrapped once: the hash is
\* collision free, and no content hashes to the zero hash.
ZeroHash == <<>>

TreeHashRoot(x) == <<x>>

\* Option<T>
None == <<>>

Some(x) == <<x>>

IsSome(o) == o # None

Unwrap(o) == o[1]

\* ------------------------------------------------------------------ blocks and states

\* BeaconBlock: the body stands for everything the block carries besides its
\* header fields; "invalid" is a body that block application rejects.
BeaconBlock(slot, previous_block_root, state_root, body) ==
    [slot |-> slot, previous_block_root |-> previous_block_root,
     state_root |-> state_root, body |-> body]

\* BeaconBlock::block_header(): the body replaced by its root.
BlockHeader(block) ==
    [slot |-> block.slot, previous_block_root |-> block.previous_block_root,
     state_root |-> block.state_root, block_body_root |-> TreeHashRoot(block.body)]

\* BeaconBlock::temporary_block_header(): the header with a zero state root.
TemporaryBlockHeader(block) ==
    [BlockHeader(block) EXCEPT !.state_root = ZeroHash]

\* block.block_header().canonical_root() and block.canonical_root(): the signed
\* root of the header fields (both hash the same four fields).
BlockRoot(block) == TreeHashRoot(BlockHeader(block))

\* BeaconState::canonical_root(). A state is what the transitions applied to
\* the genesis state made it; its history lists them (every operator that
\* changes a state extends it), so the root of a state is taken of its slot
\* and its history: equal roots, equal states.
StateRoot(st) == TreeHashRoot(<<st.slot, st.history>>)

\* ------------------------------------------------------------------ per-slot transition

RingIndex(slot) == slot % SlotsPerHistoricalRoot

\* A variant of cache_state that writes both rings at the index of the slot
\* the state is moving to.
CacheStateAtNewSlot(st) ==
    LET previous_slot_state_root == StateRoot(st)
        header == IF st.latest_block_header.state_root = ZeroHash
                  THEN [st.latest_block_header EXCEPT !.state_root = previous_slot_state_root]
                  ELSE st.latest_block_header
        latest_block_root == TreeHashRoot(header)
    IN  [st EXCEPT
            !.history = Append(@, "cache"),
            !.latest_block_header = header,
            !.latest_state_roots = [@ EXCEPT ![RingIndex(st.slot + 1)] = previous_slot_state_root],
            !.latest_block_roots = [@ EXCEPT ![RingIndex(st.slot + 1)] = latest_block_root]]

\* A variant of cache_state that writes the pre-transition root into the
\* latest block header whatever state root the header carries.
CacheStateAlwaysBackfill(st) ==
    LET previous_slot_state_root == StateRoot(st)
        previous_slot == st.slot
        header == [st.latest_block_header EXCEPT !.state_root = previous_slot_state_root]
        latest_block_root == TreeHashRoot(header)
    IN  [st EXCEPT
            !.history = Append(@, "cache"),
            !.latest_block_header = header,
            !.latest_state_roots = [@ EXCEPT ![RingIndex(previous_slot)] = previous_slot_state_root],
            !.latest_block_roots = [@ EXCEPT ![RingIndex(previous_slot)] = latest_block_root]]

\* cache_state: the pre-transition root goes into both rings at the previous
\* slot's index, and backfills a zero state root of the latest block header.
CacheState(st) ==
    LET previous_slot_state_root == StateRoot(st)
        previous_slot == st.slot
        header == IF st.latest_block_header.state_root = ZeroHash
                  THEN [st.latest_block_header EXCEPT !.state_root = previous_slot_state_root]
                  ELSE st.latest_block_header
        latest_block_root == TreeHashRoot(header)
    IN  [st EXCEPT
            !.history = Append(@, "cache"),
            !.latest_block_header = header,
            !.latest_state_roots = [@ EXCEPT ![RingIndex(previous_slot)] = previous_slot_state_root],
            !.latest_block_roots = [@ EXCEPT ![RingIndex(previous_slot)] = latest_block_root]]

\* A variant of the epoch test that looks at the state's own slot.
EpochBoundaryAtOwnSlot(slot) == slot % SlotsPerEpoch = 0

\* Whether per_slot_processing of a state at `slot` runs the epoch transition.
EpochBoundary(slot) == (slot + 1) % SlotsPerEpoch = 0

\* per_epoch_processing (external): what it changes is kept as the list of the
\* slots the state had when it ran.
PerEpochProcessing(st) ==
    [st EXCEPT !.epochs = Append(@, st.slot), !.history = Append(@, "epoch")]

\* A variant of per_slot_processing that increments the slot before it runs
\* the epoch transition.
PerSlotProcessingIncrementFirst(st, epoch_ok) ==
    LET cached == CacheState(st)
        incremented == [cached EXCEPT !.slot = @ + 1]
    IN  IF EpochBoundary(st.slot)
        THEN IF epoch_ok
             THEN [ok |-> TRUE, state |-> PerEpochProcessing(incremented)]
             ELSE [ok |-> FALSE, state |-> incremented]
        ELSE [ok |-> TRUE, state |-> incremented]

\* per_slot_processing(state, spec). epoch_ok: whether the external epoch
\* transition succeeds. On an error the state keeps what cache_state wrote.
PerSlotProcessing(st, epoch_ok) ==
    LET cached == CacheState(st)
    IN  IF EpochBoundary(st.slot)
        THEN IF epoch_ok
             THEN [ok |-> TRUE, state |-> [PerEpochProcessing(cached) EXCEPT !.slot = @ + 1]]
             ELSE [ok |-> FALSE, state |-> cached]
        ELSE [ok |-> TRUE, state |-> [cached EXCEPT !.slot = @ + 1]]

\* A variant of the per-slot loop that stops one slot short of its target.
RECURSIVE AdvanceStateShort(_, _, _)
AdvanceStateShort(st, target, bad_slot) ==
    IF st.slot + 1 >= target
    THEN [ok |-> TRUE, state |-> st]
    ELSE LET r == PerSlotProcessing(st, st.slot # bad_slot)
         IN  IF r.ok THEN AdvanceStateShort(r.state, target, bad_slot) ELSE r

\* for _ in state.slot..target { per_slot_processing(&mut state)? }
\* bad_slot: the slot at which the epoch transition fails (-1: nowhere).
RECURSIVE AdvanceState(_, _, _)
AdvanceState(st, target, bad_slot) ==
    IF st.slot >= target
    THEN [ok |-> TRUE, state |-> st]
    ELSE LET r == PerSlotProcessing(st, st.slot # bad_slot)
         IN  IF r.ok THEN AdvanceState(r.state, target, bad_slot) ELSE r

\* The slots at which an advance from `from` to `target` can fail, and -1.
EpochFaults(from, target) ==
    {-1} \cup {s \in 0..MaxSlot : from <= s /\ s < target /\ EpochBoundary(s)}

\* ------------------------------------------------------------------ block application

\* per_block_processing(state, block, spec): the header checks (the block is
\* for the state's slot and names the state's latest header as its parent) and
\* the body's validity; on success the block's temporary header becomes the
\* state's latest block header.
BlockApplies(st, block) ==
    /\ block.slot = st.slot
    /\ block.previous_block_root = TreeHashRoot(st.latest_block_header)
    /\ block.body = "ok"

PerBlockProcessing(st, block) ==
    IF BlockApplies(st, block)
    THEN [ok |-> TRUE,
          state |-> [st EXCEPT !.latest_block_header = TemporaryBlockHeader(block),
                               !.history = Append(@, block.body)]]
    ELSE [ok |-> FALSE, state |-> st]

\* ------------------------------------------------------------------ genesis

GenesisBody == "genesis"

GenesisState ==
    [slot |-> 0,
     latest_block_header |->
        TemporaryBlockHeader(BeaconBlock(0, ZeroHash, ZeroHash, GenesisBody)),
     latest_block_roots |-> [i \in 0..(SlotsPerHistoricalRoot - 1) |-> ZeroHash],
     latest_state_roots |-> [i \in 0..(SlotsPerHistoricalRoot - 1) |-> ZeroHash],
     epochs |-> <<>>,
     history |-> <<>>]

GenesisBlock == BeaconBlock(0, ZeroHash, StateRoot(GenesisState), GenesisBody)

\* ------------------------------------------------------------------ candidate blocks

\* A valid block together with the state it results in.
Node(block, st) == [block |-> block, state |-> st]

\* The state a child of node n at `slot` results in, when nothing fails.
ChildState(n, slot, body) ==
    LET adv == AdvanceState(n.state, slot, -1).state
    IN  [adv EXCEPT !.latest_block_header =
            TemporaryBlockHeader(BeaconBlock(slot, BlockRoot(n.block), ZeroHash, body)),
                    !.history = Append(@, body)]

ValidChild(n, slot) ==
    LET st == ChildState(n, slot, "ok")
    IN  Node(BeaconBlock(slot, BlockRoot(n.block), StateRoot(st), "ok"), st)

\* The tree of valid blocks above genesis, to a depth.
RECURSIVE Nodes(_)
Nodes(depth) ==
    IF depth = 0
    THEN {Node(GenesisBlock, GenesisState)}
    ELSE LET below == Nodes(depth - 1)
         IN  below \cup {ValidChild(p[1], p[2]) :
                            p \in {q \in below \X (1..MaxSlot) : q[2] > q[1].block.slot}}

Tree == Nodes(MaxSlot)

\* The blocks a caller may submit: every valid block of the tree, and blocks
\* that are not valid: on the genesis block, one declaring a wrong state root,
\* one with an invalid body, one for the slot of its parent; and on the first
\* block, one for a slot before its parent's.
FirstBlock == ValidChild(Node(GenesisBlock, GenesisState), 1).block

Candidates ==
    {n.block : n \in Tree \ {Node(GenesisBlock, GenesisState)}}
    \cup {[FirstBlock EXCEPT !.state_root = ZeroHash],
          BeaconBlock(1, BlockRoot(GenesisBlock), ZeroHash, "invalid"),
          BeaconBlock(0, BlockRoot(GenesisBlock), ZeroHash, "ok"),
          BeaconBlock(0, BlockRoot(FirstBlock), ZeroHash, "ok")}


\* ------------------------------------------------------------------ state

VARIABLES
    store,            \* Store: [blocks, states], each a map from a root to the item put under it
    fork_choice,      \* the block roots handed to ForkChoice::add_block
    canonical_head,   \* RwLock<CheckPoint>
    finalized_head,   \* RwLock<CheckPoint>
    state,            \* RwLock<BeaconState>: the working state
    op_pool,          \* OperationPool: the operations queued for inclusion in a block
    slot_clock,       \* the slot the slot clock reports
    pc,               \* each thread's position in its call
    local,            \* each thread's local variables
    outcome,          \* each thread's return value, once its call has returned
    log,              \* each thread's accesses to the shared resources, in order
    ncalls,           \* calls started
    nfaults           \* collaborator calls that have failed

vars == <<store, fork_choice, canonical_head, finalized_head, state, op_pool, slot_clock,
          pc, local, outcome, log, ncalls, nfaults>>

shared == <<store, fork_choice, canonical_head, finalized_head, state, op_pool>>

\* CheckPoint::new / CheckPoint::update: the four fields together.
CheckPoint(block, block_root, st, state_root) ==
    [beacon_block |-> block, beacon_block_root |-> block_root,
     beacon_state |-> st, beacon_state_root |-> state_root]

NoCall == [op |-> "none"]

NoOutcome == [res |-> "none", kind |-> "none", reason |-> "none"]

\* A variant of from_genesis whose finalized head is a block that was never
\* stored.
FromGenesisDetached(genesis_state, genesis_block) ==
    LET state_root == StateRoot(genesis_state)
        block_root == BlockRoot(genesis_block)
        other == [genesis_block EXCEPT !.body = "other"]
    IN  [store |-> [blocks |-> (block_root :> genesis_block),
                    states |-> (state_root :> genesis_state)],
         finalized_head |-> CheckPoint(other, BlockRoot(other), genesis_state, state_root),
         canonical_head |-> CheckPoint(genesis_block, block_root, genesis_state, state_root),
         state |-> genesis_state]

\* A variant of from_genesis that takes the state root the block declares for
\* the root of the genesis state.
FromGenesisDeclaredRoot(genesis_state, genesis_block) ==
    LET state_root == genesis_block.state_root
        block_root == BlockRoot(genesis_block)
    IN  [store |-> [blocks |-> (block_root :> genesis_block),
                    states |-> (state_root :> genesis_state)],
         finalized_head |-> CheckPoint(genesis_block, block_root, genesis_state, state_root),
         canonical_head |-> CheckPoint(genesis_block, block_root, genesis_state, state_root),
         state |-> genesis_state]

\* from_genesis, when both puts succeed: genesis state and block are stored
\* under their roots, both heads are the genesis checkpoint, the working state
\* is the genesis state.
FromGenesis(genesis_state, genesis_block) ==
    LET state_root == StateRoot(genesis_state)
        block_root == BlockRoot(genesis_block)
    IN  [store |-> [blocks |-> (block_root :> genesis_block),
                    states |-> (state_root :> genesis_state)],
         finalized_head |-> CheckPoint(genesis_block, block_root, genesis_state, state_root),
         canonical_head |-> CheckPoint(genesis_block, block_root, genesis_state, state_root),
         state |-> genesis_state]

Init ==
    LET chain == FromGenesis(GenesisState, GenesisBlock)
    IN  /\ store = chain.store
        /\ fork_choice = {}
        /\ canonical_head = chain.canonical_head
        /\ finalized_head = chain.finalized_head
        /\ state = chain.state
        /\ op_pool = {}
        /\ slot_clock = 0
        /\ pc = [t \in Threads |-> "idle"]
        /\ local = [t \in Threads |-> NoCall]
        /\ outcome = [t \in Threads |-> NoOutcome]
        /\ log = [t \in Threads |-> <<>>]
        /\ ncalls = 0
        /\ nfaults = 0

\* ------------------------------------------------------------------ Store

\* A variant of the block lookup that answers an unknown key with the head's
\* block.
StoreGetBlockDefault(key) ==
    IF key \in DOMAIN store.blocks THEN Some(store.blocks[key])
    ELSE Some(canonical_head.beacon_block)

\* A variant of the state lookup that answers an unknown key with the working
\* state.
StoreGetStateOrWorking(key) ==
    IF key \in DOMAIN store.states THEN Some(store.states[key]) ELSE Some(state)

\* Store::get::<BeaconBlock> and Store::get::<BeaconState>
StoreGetBlock(key) ==
    IF key \in DOMAIN store.blocks THEN Some(store.blocks[key]) ELSE None

StoreGetState(key) ==
    IF key \in DOMAIN store.states THEN Some(store.states[key]) ELSE None

\* ------------------------------------------------------------------ thread steps

\* A call returns: the thread is at "done" with its return value.
Return(t, result) ==
    /\ pc' = [pc EXCEPT ![t] = "done"]
    /\ outcome' = [outcome EXCEPT ![t] = result]

Goto(t, label) ==
    /\ pc' = [pc EXCEPT ![t] = label]
    /\ UNCHANGED outcome

Logged(t, events) == log' = [log EXCEPT ![t] = @ \o events]

\* A collaborator call fails, or does not.
Fault ==
    /\ nfaults < MaxFaults
    /\ nfaults' = nfaults + 1

NoFault == UNCHANGED nfaults

\* Result<BlockProcessingOutcome, Error> and Result<(), Error>
InvalidBlock(reason) == [res |-> "Ok", kind |-> "InvalidBlock", reason |-> reason]

FutureSlot(present_slot, block_slot) ==
    [res |-> "Ok", kind |-> "InvalidBlock", reason |-> "FutureSlot",
     present_slot |-> present_slot, block_slot |-> block_slot]

ValidBlock(v) == [res |-> "Ok", kind |-> "ValidBlock", reason |-> v]

OkUnit == [res |-> "Ok", kind |-> "()", reason |-> "()"]

Err(e) == [res |-> "Err", kind |-> "Error", reason |-> e]

\* ------------------------------------------------------------------ process_block

\* Variants of the future-slot test: one that never rejects, one that lets a
\* block one slot ahead through.
IsFutureSlotNever(block, present_slot) == FALSE

IsFutureSlotLate(block, present_slot) == block.slot > present_slot + 1

\* block.slot > present_slot
IsFutureSlot(block, present_slot) == block.slot > present_slot

\* A variant of the state-root comparison that accepts every root.
StateRootMismatchNever(block, state_root) == FALSE

\* block.state_root != state_root
StateRootMismatch(block, state_root) == block.state_root # state_root

\* A variant of the head test that takes every accepted block as the new head.
ExtendsHeadAlways(head_block_root, parent_block_root) == TRUE

\* A variant of the head test that also takes every child of the genesis block
\* as the new head.
ExtendsHeadOrGenesis(head_block_root, parent_block_root) ==
    \/ head_block_root = parent_block_root
    \/ parent_block_root = BlockRoot(GenesisBlock)

\* self.head().beacon_block_root == parent_block_root
ExtendsHead(head_block_root, parent_block_root) == head_block_root = parent_block_root

\* The gates that work on the thread's own copy of the parent state: the
\* per-slot advance to the block's slot, the application of the block, and the
\* comparison of the declared state root with the resulting one.
TransitionGates(block, parent_state, bad_slot) ==
    LET advanced == AdvanceState(parent_state, block.slot, bad_slot)
        applied == PerBlockProcessing(advanced.state, block)
        state_root == StateRoot(applied.state)
    IN  IF ~advanced.ok
        THEN [gate |-> "SlotProcessingError", handed |-> None, state |-> None]
        ELSE IF ~applied.ok
        THEN [gate |-> "PerBlockProcessingError", handed |-> Some(advanced.state),
              state |-> None]
        ELSE IF StateRootMismatch(block, state_root)
        THEN [gate |-> "StateRootMismatch", handed |-> Some(advanced.state),
              state |-> Some(applied.state)]
        ELSE [gate |-> "passed", handed |-> Some(advanced.state),
              state |-> Some(applied.state)]

\* process_block(block), to the future-slot gate: the present slot is read
\* from the working state.
ProcessBlockBegin(t, block) ==
    LET present_slot == state.slot
    IN  /\ local' = [local EXCEPT ![t] =
                [op |-> "process_block", block |-> block,
                 block_root |-> BlockRoot(block), present_slot |-> present_slot,
                 parent_lookup |-> "none", state_lookup |-> "none",
                 parent_state |-> None, bad_slot |-> -1,
                 state |-> None, head_seen |-> None,
                 clock_slot |-> 0]]
        /\ log' = [log EXCEPT ![t] = <<"state.read">>]
        /\ IF IsFutureSlot(block, present_slot)
           THEN Return(t, FutureSlot(present_slot, block.slot))
           ELSE Goto(t, "load_parent")

\* A thread calls process_block with one of the candidate blocks.
ProcessBlockStart(t) ==
    /\ pc[t] = "idle"
    /\ ncalls < MaxCalls
    /\ ncalls' = ncalls + 1
    /\ \E block \in Candidates : ProcessBlockBegin(t, block)
    /\ UNCHANGED <<shared, slot_clock, nfaults>>

\* process_block, from the parent-block lookup to the state-root comparison.
\* The Store only grows and the rest works on the thread's own state, so the
\* two lookups and the transition are one step.
ProcessBlockLoadParent(t) ==
    /\ pc[t] = "load_parent"
    /\ LET block == local[t].block
           parent_block == StoreGetBlock(block.previous_block_root)
       IN  \/ \* store.get(&parent_block_root)? fails
              /\ Fault
              /\ local' = [local EXCEPT ![t].parent_lookup = "DBError"]
              /\ Logged(t, <<"store.get_block">>)
              /\ Return(t, Err("DBError"))
           \/ /\ parent_block = None
              /\ NoFault
              /\ local' = [local EXCEPT ![t].parent_lookup = "absent"]
              /\ Logged(t, <<"store.get_block">>)
              /\ Return(t, InvalidBlock("ParentUnknown"))
           \/ \* store.get(&parent_state_root)? fails
              /\ parent_block # None
              /\ Fault
              /\ local' = [local EXCEPT ![t].parent_lookup = "found",
                                        ![t].state_lookup = "DBError"]
              /\ Logged(t, <<"store.get_block", "store.get_state">>)
              /\ Return(t, Err("DBError"))
           \/ /\ parent_block # None
              /\ Logged(t, <<"store.get_block", "store.get_state">>)
              /\ LET parent_state == StoreGetState(Unwrap(parent_block).state_root)
                 IN  IF parent_state = None
                     THEN /\ NoFault
                          /\ local' = [local EXCEPT ![t].parent_lookup = "found",
                                                    ![t].state_lookup = "absent"]
                          /\ Return(t, Err("DBInconsistent"))
                     ELSE \E bad_slot \in EpochFaults(Unwrap(parent_state).slot, block.slot) :
                          LET gates == TransitionGates(block, Unwrap(parent_state), bad_slot)
                          IN  /\ IF bad_slot = -1 THEN NoFault ELSE Fault
                              /\ local' = [local EXCEPT ![t].parent_lookup = "found",
                                                        ![t].state_lookup = "found",
                                                        ![t].parent_state = parent_state,
                                                        ![t].bad_slot = bad_slot,
                                                        ![t].state = gates.state]
                              /\ IF gates.gate = "passed"
                                 THEN Goto(t, "put_block")
                                 ELSE Return(t, InvalidBlock(gates.gate))
    /\ UNCHANGED <<shared, slot_clock, ncalls>>

\* A variant of the first put that reports success without writing.
ProcessBlockPutBlockLost(t) ==
    /\ pc[t] = "put_block"
    /\ NoFault
    /\ Logged(t, <<"store.put_block">>)
    /\ Goto(t, "put_state")
    /\ UNCHANGED <<shared, slot_clock, local, ncalls>>

\* self.store.put(&block_root, &block)?
ProcessBlockPutBlock(t) ==
    /\ pc[t] = "put_block"
    /\ \/ /\ NoFault
          /\ store' = [store EXCEPT !.blocks = (local[t].block_root :> local[t].block) @@ @]
          /\ Logged(t, <<"store.put_block">>)
          /\ Goto(t, "put_state")
       \/ /\ Fault
          /\ UNCHANGED store
          /\ Logged(t, <<"store.put_block failed">>)
          /\ Return(t, Err("DBError"))
    /\ UNCHANGED <<fork_choice, canonical_head, finalized_head, state, op_pool, slot_clock,
                   local, ncalls>>

\* A variant of the second put that reports success without writing.
ProcessBlockPutStateLost(t) ==
    /\ pc[t] = "put_state"
    /\ NoFault
    /\ Logged(t, <<"store.put_state">>)
    /\ Goto(t, "add_block")
    /\ UNCHANGED <<shared, slot_clock, local, ncalls>>

\* self.store.put(&state_root, &state)?
ProcessBlockPutState(t) ==
    /\ pc[t] = "put_state"
    /\ \/ /\ NoFault
          /\ store' = [store EXCEPT !.states =
                    (StateRoot(Unwrap(local[t].state)) :> Unwrap(local[t].state)) @@ @]
          /\ Logged(t, <<"store.put_state">>)
          /\ Goto(t, "add_block")
       \/ /\ Fault
          /\ UNCHANGED store
          /\ Logged(t, <<"store.put_state failed">>)
          /\ Return(t, Err("DBError"))
    /\ UNCHANGED <<fork_choice, canonical_head, finalized_head, state, op_pool, slot_clock,
                   local, ncalls>>

\* self.fork_choice.write().add_block(&block, &block_root, &self.spec)?
ProcessBlockAddBlock(t) ==
    /\ pc[t] = "add_block"
    /\ \/ /\ NoFault
          /\ fork_choice' = fork_choice \cup {local[t].block_root}
          /\ Logged(t, <<"fork_choice.add_block">>)
          /\ Goto(t, "check_head")
       \/ /\ Fault
          /\ UNCHANGED fork_choice
          /\ Logged(t, <<"fork_choice.add_block failed">>)
          /\ Return(t, Err("ForkChoiceError"))
    /\ UNCHANGED <<store, canonical_head, finalized_head, state, op_pool, slot_clock,
                   local, ncalls>>

\* if self.head().beacon_block_root == parent_block_root { .. }: the read lock
\* on the canonical head is dropped when the condition has been evaluated.
ProcessBlockCheckHead(t) ==
    /\ pc[t] = "check_head"
    /\ Logged(t, <<"canonical_head.read">>)
    /\ local' = [local EXCEPT ![t].head_seen = Some(canonical_head.beacon_block_root)]
    /\ IF ExtendsHead(canonical_head.beacon_block_root, local[t].block.previous_block_root)
       THEN Goto(t, "update_canonical_head")
       ELSE Return(t, ValidBlock("Processed"))
    /\ UNCHANGED <<shared, slot_clock, ncalls, nfaults>>

\* ------------------------------------------------------------------ head and working state

\* update_canonical_head: the four fields are replaced under the write lock.
UpdateCanonicalHead(t) ==
    /\ pc[t] = "update_canonical_head"
    /\ canonical_head' = CheckPoint(local[t].block, local[t].block_root,
                                    Unwrap(local[t].state), StateRoot(Unwrap(local[t].state)))
    /\ Logged(t, <<"canonical_head.write">>)
    /\ Goto(t, "read_slot_clock")
    /\ UNCHANGED <<store, fork_choice, finalized_head, state, op_pool, slot_clock, local,
                   ncalls, nfaults>>

\* update_state, first part: self.slot_clock.present_slot()
UpdateStateReadClock(t) ==
    /\ pc[t] = "read_slot_clock"
    /\ Logged(t, <<"slot_clock.read">>)
    /\ \/ /\ NoFault
          /\ local' = [local EXCEPT ![t].clock_slot = slot_clock]
          /\ Goto(t, "write_state")
       \/ /\ Fault
          /\ UNCHANGED local
          /\ Return(t, Err("UnableToReadSlot"))
    /\ UNCHANGED <<shared, slot_clock, ncalls>>

\* The value a call returns when its update_state has succeeded.
Completed(op) == IF op = "process_block" THEN ValidBlock("Processed") ELSE OkUnit

\* update_state, second part: the supplied state is advanced to the slot read
\* from the clock and installed in one write.
\* A variant of the write that installs the supplied state as it was given
\* and leaves its advance to catchup_state.
UpdateStateWriteUnadvanced(t) ==
    /\ pc[t] = "write_state"
    /\ NoFault
    /\ state' = Unwrap(local[t].state)
    /\ Logged(t, <<"state.write">>)
    /\ Return(t, Completed(local[t].op))
    /\ UNCHANGED <<store, fork_choice, canonical_head, finalized_head, op_pool, slot_clock,
                   local, ncalls>>

UpdateStateWrite(t) ==
    /\ pc[t] = "write_state"
    /\ \/ \E bad_slot \in EpochFaults(Unwrap(local[t].state).slot, local[t].clock_slot) :
          LET advanced == AdvanceState(Unwrap(local[t].state), local[t].clock_slot, bad_slot)
          IN  IF advanced.ok
              THEN /\ NoFault
                   /\ state' = advanced.state
                   /\ Logged(t, <<"state.write">>)
                   /\ Return(t, Completed(local[t].op))
              ELSE /\ Fault
                   /\ UNCHANGED state
                   /\ UNCHANGED log
                   /\ Return(t, Err("SlotProcessingError"))
       \/ \* state.build_all_caches(&self.spec)? fails
          /\ Fault
          /\ UNCHANGED state
          /\ UNCHANGED log
          /\ Return(t, Err("BeaconStateError"))
    /\ UNCHANGED <<store, fork_choice, canonical_head, finalized_head, op_pool, slot_clock,
                   local, ncalls>>

\* catchup_state: the working state is advanced in place, under its write
\* lock, to a slot read from the clock before the lock was taken (any slot the
\* clock has shown). An epoch transition that fails leaves the state as far
\* as it got.
CatchupState ==
    /\ \E present_slot \in 0..slot_clock :
       \E bad_slot \in EpochFaults(state.slot, present_slot) :
          /\ IF bad_slot = -1 THEN NoFault ELSE Fault
          /\ state' = AdvanceState(state, present_slot, bad_slot).state
          /\ state' # state
    /\ UNCHANGED <<store, fork_choice, canonical_head, finalized_head, op_pool, slot_clock,
                   pc, local, outcome, log, ncalls>>

\* The slot clock moves on.
Tick ==
    /\ slot_clock < MaxSlot
    /\ slot_clock' = slot_clock + 1
    /\ UNCHANGED <<shared, pc, local, outcome, log, ncalls, nfaults>>

\* ------------------------------------------------------------------ fork_choice

\* What fork_choice() keeps of its lookups.
ForkChoiceCall(new_head) == [op |-> "fork_choice", new_head |-> new_head]

\* fork_choice(), from the root find_head returned to the update of the
\* canonical head: nothing more when the root is the finalized head's;
\* otherwise block and state are read from the Store.
ForkChoiceLookup(t, present_head, new_head) ==
    LET block == StoreGetBlock(new_head)
        st == IF block = None THEN None
              ELSE StoreGetState(Unwrap(block).state_root)
    IN  IF new_head = present_head
        THEN /\ local' = [local EXCEPT ![t] = ForkChoiceCall(Some(new_head))]
             /\ log' = [log EXCEPT ![t] =
                      <<"finalized_head.read", "fork_choice.find_head">>]
             /\ Return(t, OkUnit)
        ELSE IF block = None
        THEN /\ local' = [local EXCEPT ![t] = ForkChoiceCall(Some(new_head))]
             /\ log' = [log EXCEPT ![t] =
                      <<"finalized_head.read", "fork_choice.find_head",
                        "store.get_block">>]
             /\ Return(t, Err("MissingBeaconBlock"))
        ELSE IF st = None
        THEN /\ local' = [local EXCEPT ![t] = ForkChoiceCall(Some(new_head))]
             /\ log' = [log EXCEPT ![t] =
                      <<"finalized_head.read", "fork_choice.find_head",
                        "store.get_block", "store.get_state">>]
             /\ Return(t, Err("MissingBeaconState"))
        ELSE /\ local' = [local EXCEPT ![t] =
                      [op |-> "fork_choice", new_head |-> Some(new_head),
                       block |-> Unwrap(block),
                       block_root |-> BlockRoot(Unwrap(block)),
                       state |-> st, clock_slot |-> 0]]
             /\ log' = [log EXCEPT ![t] =
                      <<"finalized_head.read", "fork_choice.find_head",
                        "store.get_block", "store.get_state">>]
             /\ Goto(t, "update_canonical_head")

\* The roots of the blocks a caller may submit.
CandidateRoots == {BlockRoot(block) : block \in Candidates}

\* fork_choice(), to the update of the canonical head: find_head is seeded
\* with the finalized head's block root and returns a root it was given (or
\* its start); a find_head that breaks its contract returns the root of a
\* block it was never given.
ForkChoiceStart(t) ==
    /\ pc[t] = "idle"
    /\ ncalls < MaxCalls
    /\ ncalls' = ncalls + 1
    /\ LET present_head == finalized_head.beacon_block_root
       IN  \/ \* find_head fails
              /\ Fault
              /\ local' = [local EXCEPT ![t] = ForkChoiceCall(None)]
              /\ log' = [log EXCEPT ![t] = <<"finalized_head.read", "fork_choice.find_head">>]
              /\ Return(t, Err("ForkChoiceError"))
           \/ \* self.store.get(&new_head)? or self.store.get(&block.state_root)? fails
              /\ Fault
              /\ \E new_head \in fork_choice \ {present_head} :
                    local' = [local EXCEPT ![t] = ForkChoiceCall(Some(new_head))]
              /\ log' = [log EXCEPT ![t] =
                        <<"finalized_head.read", "fork_choice.find_head", "store.get_block">>]
              /\ Return(t, Err("DBError"))
           \/ /\ NoFault
              /\ \E new_head \in {present_head} \cup fork_choice :
                    ForkChoiceLookup(t, present_head, new_head)
           \/ /\ Fault
              /\ \E new_head \in CandidateRoots \ fork_choice :
                    ForkChoiceLookup(t, present_head, new_head)
    /\ UNCHANGED <<shared, slot_clock>>

\* The caller has its result; the thread is free for another call.
Finish(t) ==
    /\ pc[t] = "done"
    /\ pc' = [pc EXCEPT ![t] = "idle"]
    /\ local' = [local EXCEPT ![t] = NoCall]
    /\ outcome' = [outcome EXCEPT ![t] = NoOutcome]
    /\ log' = [log EXCEPT ![t] = <<>>]
    /\ UNCHANGED <<shared, slot_clock, ncalls, nfaults>>

\* ------------------------------------------------------------------ specification

Next ==
    \/ \E t \in Threads : ProcessBlockStart(t)
    \/ \E t \in Threads : ProcessBlockLoadParent(t)
    \/ \E t \in Threads : ProcessBlockPutBlock(t)
    \/ \E t \in Threads : ProcessBlockPutState(t)
    \/ \E t \in Threads : ProcessBlockAddBlock(t)
    \/ \E t \in Threads : ProcessBlockCheckHead(t)
    \/ \E t \in Threads : UpdateCanonicalHead(t)
    \/ \E t \in Threads : UpdateStateReadClock(t)
    \/ \E t \in Threads : UpdateStateWrite(t)
    \/ \E t \in Threads : ForkChoiceStart(t)
    \/ \E t \in Threads : Finish(t)
    \/ CatchupState
    \/ Tick

Spec == Init /\ [][Next]_vars

\* ------------------------------------------------------------------ calls made one after another

\* A caller submits a block when no other call is in progress.
ResubmitStart(t) ==
    /\ pc[t] = "idle"
    /\ \A u \in Threads : pc[u] \in {"idle", "done"}
    /\ ncalls < MaxResubmitCalls
    /\ ncalls' = ncalls + 1
    /\ \E block \in Candidates : ProcessBlockBegin(t, block)
    /\ UNCHANGED <<shared, slot_clock, nfaults>>

ResubmitNext ==
    \/ \E t \in Threads : ResubmitStart(t)
    \/ \E t \in Threads : ProcessBlockLoadParent(t)
    \/ \E t \in Threads : ProcessBlockPutBlock(t)
    \/ \E t \in Threads : ProcessBlockPutState(t)
    \/ \E t \in Threads : ProcessBlockAddBlock(t)
    \/ \E t \in Threads : ProcessBlockCheckHead(t)
    \/ \E t \in Threads : UpdateCanonicalHead(t)
    \/ \E t \in Threads : UpdateStateReadClock(t)
    \/ \E t \in Threads : UpdateStateWrite(t)
    \/ \E t \in Threads : Finish(t)
    \/ CatchupState
    \/ Tick

ResubmitSpec == Init /\ [][ResubmitNext]_vars

\* ------------------------------------------------------------------ construction

\* The arguments of from_genesis: any state and any block (the block need not
\* declare the state's root), over a Store that is empty or was used before.
GenesisStates == {n.state : n \in Tree}

GenesisBlocks == Candidates \cup {GenesisBlock}

EmptyStore == [blocks |-> <<>>, states |-> <<>>]

PriorStores == {EmptyStore, FromGenesis(GenesisState, GenesisBlock).store}

FromGenesisArguments(genesis_state, genesis_block) ==
    [op |-> "from_genesis", genesis_state |-> genesis_state, genesis_block |-> genesis_block]

\* Before the constructor has run there is no chain: no heads, no working state.
GenesisInit ==
    /\ store \in PriorStores
    /\ fork_choice = {}
    /\ canonical_head = None
    /\ finalized_head = None
    /\ state = None
    /\ op_pool = {}
    /\ slot_clock = 0
    /\ pc = [t \in Threads |-> "idle"]
    /\ local \in {[t \in Threads |-> IF t = "t1" THEN FromGenesisArguments(a[1], a[2])
                                     ELSE NoCall] : a \in GenesisStates \X GenesisBlocks}
    /\ outcome = [t \in Threads |-> NoOutcome]
    /\ log = [t \in Threads |-> <<>>]
    /\ ncalls = 0
    /\ nfaults = 0

\* from_genesis: the two puts, the two checkpoints, build_all_caches, Ok(Self).
FromGenesisCall(t) ==
    /\ pc[t] = "idle"
    /\ local[t].op = "from_genesis"
    /\ ncalls' = ncalls + 1
    /\ LET genesis_state == local[t].genesis_state
           genesis_block == local[t].genesis_block
           chain == FromGenesis(genesis_state, genesis_block)
       IN  \/ \* store.put(&state_root, &genesis_state)? fails
              /\ Fault
              /\ log' = [log EXCEPT ![t] = <<"store.put_state failed">>]
              /\ Return(t, Err("DBError"))
              /\ UNCHANGED shared
           \/ \* store.put(&block_root, &genesis_block)? fails
              /\ Fault
              /\ store' = [store EXCEPT !.states = chain.store.states @@ @]
              /\ log' = [log EXCEPT ![t] = <<"store.put_state", "store.put_block failed">>]
              /\ Return(t, Err("DBError"))
              /\ UNCHANGED <<fork_choice, canonical_head, finalized_head, state>>
           \/ \* genesis_state.build_all_caches(&spec)? fails
              /\ Fault
              /\ store' = [blocks |-> chain.store.blocks @@ store.blocks,
                           states |-> chain.store.states @@ store.states]
              /\ log' = [log EXCEPT ![t] = <<"store.put_state", "store.put_block">>]
              /\ Return(t, Err("BeaconStateError"))
              /\ UNCHANGED <<fork_choice, canonical_head, finalized_head, state>>
           \/ /\ NoFault
              /\ store' = [blocks |-> chain.store.blocks @@ store.blocks,
                           states |-> chain.store.states @@ store.states]
              /\ finalized_head' = chain.finalized_head
              /\ canonical_head' = chain.canonical_head
              /\ state' = chain.state
              /\ log' = [log EXCEPT ![t] = <<"store.put_state", "store.put_block">>]
              /\ Return(t, OkUnit)
              /\ UNCHANGED fork_choice
    /\ UNCHANGED <<op_pool, slot_clock, local>>

GenesisNext == \E t \in Threads : FromGenesisCall(t)

GenesisSpec == GenesisInit /\ [][GenesisNext]_vars

\* ------------------------------------------------------------------ the chain's locks

\* The RwLocks of the chain are taken and dropped by its operations, so which
\* guards a thread holds, and which lock it waits for, follows from its
\* position. A guard created in a statement lives to the end of the statement;
\* a guard bound by `let` lives to the end of its block.

\* The read guards thread t holds from one step to the next:
\* produce_attestation_data keeps `let state = self.state.read()` to its
\* return; chain_dump keeps each `self.head()` of its CheckPoint literal to
\* the end of that statement.
HoldsRead(t, lock) ==
    \/ /\ lock = "state"
       /\ local[t].op = "produce_attestation_data"
       /\ pc[t] # "done"
    \/ /\ lock = "canonical_head"
       /\ local[t].op = "chain_dump"
       /\ pc[t] \in {"chain_dump.head_2", "chain_dump.head_3", "chain_dump.head_4"}
    \/ /\ lock = "state"
       /\ local[t].op = "produce_block"
       /\ pc[t] \in {"produce.deposits", "produce.voluntary_exits", "produce.transfers"}

\* The write lock thread t has asked for with the access it is at.
WantsWrite(t, lock) ==
    \/ lock = "canonical_head" /\ pc[t] = "update_canonical_head"
    \/ lock = "state" /\ pc[t] = "write_state"

\* RwLock::read under a policy that prefers writers: the request is granted
\* when no other thread waits for (or holds) the write lock.
CanRead(t, lock) == \A u \in Threads \ {t} : ~WantsWrite(u, lock)

\* RwLock::write: the request is granted when no other thread holds a guard.
CanWrite(t, lock) == \A u \in Threads \ {t} : ~HoldsRead(u, lock)

\* BeaconState::get_block_root(slot): the block-root ring's entry for a slot
\* that is before the state's slot and still within the ring.
GetBlockRoot(st, slot) ==
    IF slot < st.slot /\ st.slot <= slot + SlotsPerHistoricalRoot
    THEN Some(st.latest_block_roots[RingIndex(slot)])
    ELSE None

\* BeaconState::get_state_root(slot): the same for the state-root ring.
GetStateRoot(st, slot) ==
    IF slot < st.slot /\ st.slot <= slot + SlotsPerHistoricalRoot
    THEN Some(st.latest_state_roots[RingIndex(slot)])
    ELSE None

\* slot.epoch(slots_per_epoch).start_slot(slots_per_epoch)
EpochStartSlot(slot) == (slot \div SlotsPerEpoch) * SlotsPerEpoch

\* A call of one of the query operations begins.
QueryBegin(t, op, label) ==
    /\ pc[t] = "idle"
    /\ ncalls < MaxCalls
    /\ ncalls' = ncalls + 1
    /\ local' = [local EXCEPT ![t] = [op |-> op, target_root |-> None]]
    /\ log' = [log EXCEPT ![t] = <<>>]
    /\ Goto(t, label)

\* The AttestationData returned (the fields that depend on the chain).
AttestationData(slot, beacon_block_root, target_root) ==
    [res |-> "Ok", kind |-> "AttestationData", reason |-> "()",
     slot |-> slot, beacon_block_root |-> beacon_block_root, target_root |-> target_root]

\* produce_attestation_data: one step for each lock it takes.
ProduceAttestationData(t) ==
    /\ \/ \* let state = self.state.read();
          /\ CanRead(t, "state")
          /\ QueryBegin(t, "produce_attestation_data", "attestation.epoch_start")
       \/ \* self.state.read().slot.epoch(..).start_slot(..)
          /\ pc[t] = "attestation.epoch_start"
          /\ CanRead(t, "state")
          /\ Logged(t, <<"state.read">>)
          /\ IF state.slot = EpochStartSlot(state.slot)
             THEN Goto(t, "attestation.head_slot")
             ELSE Goto(t, "attestation.epoch_root")
          /\ UNCHANGED <<local, ncalls>>
       \/ \* if self.head().beacon_block.slot == state.slot
          /\ pc[t] = "attestation.head_slot"
          /\ CanRead(t, "canonical_head")
          /\ Logged(t, <<"canonical_head.read">>)
          /\ IF canonical_head.beacon_block.slot = state.slot
             THEN Goto(t, "attestation.head_root")
             ELSE Goto(t, "attestation.previous_epoch_root")
          /\ UNCHANGED <<local, ncalls>>
       \/ \* self.head().beacon_block_root
          /\ pc[t] = "attestation.head_root"
          /\ CanRead(t, "canonical_head")
          /\ Logged(t, <<"canonical_head.read">>)
          /\ local' = [local EXCEPT ![t].target_root = Some(canonical_head.beacon_block_root)]
          /\ Goto(t, "attestation.slot")
          /\ UNCHANGED ncalls
       \/ \* self.state.read().get_block_root(start - slots_per_epoch)? and
          \* self.state.read().get_block_root(start)?
          /\ pc[t] \in {"attestation.previous_epoch_root", "attestation.epoch_root"}
          /\ CanRead(t, "state")
          /\ Logged(t, <<"state.read">>)
          /\ LET start == EpochStartSlot(state.slot)
                 root == GetBlockRoot(state, IF pc[t] = "attestation.epoch_root"
                                             THEN start ELSE start - SlotsPerEpoch)
             IN  /\ local' = [local EXCEPT ![t].target_root = root]
                 /\ IF IsSome(root)
                    THEN Goto(t, "attestation.slot")
                    ELSE Return(t, Err("BeaconStateError"))
          /\ UNCHANGED ncalls
       \/ \* slot: self.state.read().slot
          /\ pc[t] = "attestation.slot"
          /\ CanRead(t, "state")
          /\ Logged(t, <<"state.read">>)
          /\ Goto(t, "attestation.beacon_block_root")
          /\ UNCHANGED <<local, ncalls>>
       \/ \* beacon_block_root: self.head().beacon_block_root
          /\ pc[t] = "attestation.beacon_block_root"
          /\ CanRead(t, "canonical_head")
          /\ Logged(t, <<"canonical_head.read">>)
          /\ Return(t, AttestationData(state.slot, canonical_head.beacon_block_root,
                                        Unwrap(local[t].target_root)))
          /\ UNCHANGED <<local, ncalls>>
    /\ UNCHANGED <<shared, slot_clock, nfaults>>

\* chain_dump's walk from a block down to genesis: the checkpoints read from
\* the Store, oldest first, or None when a block or a state is missing.
RECURSIVE DumpBelow(_, _)
DumpBelow(block, fuel) ==
    LET beacon_block_root == block.previous_block_root
        beacon_block == StoreGetBlock(beacon_block_root)
        beacon_state == IF IsSome(beacon_block)
                        THEN StoreGetState(Unwrap(beacon_block).state_root)
                        ELSE None
    IN  IF beacon_block_root = ZeroHash THEN Some(<<>>)
        ELSE IF fuel = 0 \/ beacon_state = None THEN None
        ELSE LET below == DumpBelow(Unwrap(beacon_block), fuel - 1)
             IN  IF below = None THEN None
                 ELSE Some(Append(Unwrap(below),
                                  CheckPoint(Unwrap(beacon_block), beacon_block_root,
                                             Unwrap(beacon_state),
                                             Unwrap(beacon_block).state_root)))

\* Ok(dump), by the slots of the dumped blocks.
ChainDumped(dump) ==
    [res |-> "Ok", kind |-> "Vec<CheckPoint>", reason |-> "()",
     slots |-> [i \in DOMAIN dump |-> dump[i].beacon_block.slot]]

\* chain_dump: the four self.head() of its CheckPoint literal, then the walk.
ChainDump(t) ==
    /\ \/ \* beacon_block: self.head().beacon_block.clone()
          /\ CanRead(t, "canonical_head")
          /\ QueryBegin(t, "chain_dump", "chain_dump.head_2")
       \/ \* beacon_block_root: self.head().., beacon_state: self.head()..
          /\ pc[t] \in {"chain_dump.head_2", "chain_dump.head_3"}
          /\ CanRead(t, "canonical_head")
          /\ Logged(t, <<"canonical_head.read">>)
          /\ Goto(t, IF pc[t] = "chain_dump.head_2"
                     THEN "chain_dump.head_3" ELSE "chain_dump.head_4")
          /\ UNCHANGED <<local, ncalls>>
       \/ \* beacon_state_root: self.head().beacon_state_root, and the walk
          /\ pc[t] = "chain_dump.head_4"
          /\ CanRead(t, "canonical_head")
          /\ Logged(t, <<"canonical_head.read">>)
          /\ LET below == DumpBelow(canonical_head.beacon_block,
                                    Cardinality(DOMAIN store.blocks))
             IN  IF below = None
                 THEN Return(t, Err("DBInconsistent"))
                 ELSE Return(t, ChainDumped(Append(Unwrap(below), canonical_head)))
          /\ UNCHANGED <<local, ncalls>>
    /\ UNCHANGED <<shared, slot_clock, nfaults>>

\* get_block_roots, by the locks it takes: the clone of the working state,
\* the two self.head() when the highest requested slot is the clone's, then
\* the walk over the clone and the Store. The walk takes no lock; of its
\* result only Ok or SlotOutOfBounds is kept here. slot: the highest slot
\* requested, earliest_slot + count * (skip + 1) - 1.
GetBlockRootsWalk(t) ==
    \/ Return(t, [res |-> "Ok", kind |-> "Vec<Hash256>", reason |-> "()"])
    \/ Return(t, Err("BeaconStateError"))

GetBlockRoots(t) ==
    /\ \/ \* let mut state = self.state.read().clone();
          /\ CanRead(t, "state")
          /\ pc[t] = "idle"
          /\ ncalls < MaxCalls
          /\ ncalls' = ncalls + 1
          /\ log' = [log EXCEPT ![t] = <<"state.read">>]
          /\ \E slot \in 0..MaxSlot :
                /\ local' = [local EXCEPT ![t] =
                            [op |-> "get_block_roots", slot |-> slot, state |-> state]]
                /\ IF slot = state.slot THEN Goto(t, "get_block_roots.head_slot")
                   ELSE IF slot >= state.slot THEN Return(t, Err("BeaconStateError"))
                   ELSE GetBlockRootsWalk(t)
       \/ \* if slot == state.slot && self.head().beacon_block.slot == slot
          /\ pc[t] = "get_block_roots.head_slot"
          /\ CanRead(t, "canonical_head")
          /\ Logged(t, <<"canonical_head.read">>)
          /\ IF canonical_head.beacon_block.slot = local[t].slot
             THEN Goto(t, "get_block_roots.head_root")
             ELSE Return(t, Err("BeaconStateError"))
          /\ UNCHANGED <<local, ncalls>>
       \/ \* roots.push(self.head().beacon_block_root), and the walk
          /\ pc[t] = "get_block_roots.head_root"
          /\ CanRead(t, "canonical_head")
          /\ Logged(t, <<"canonical_head.read">>)
          /\ GetBlockRootsWalk(t)
          /\ UNCHANGED <<local, ncalls>>
    /\ UNCHANGED <<shared, slot_clock, nfaults>>

\* The steps of process_block, fork_choice and catchup_state that take a lock,
\* each with the condition under which the lock is granted.
\* The blocks submitted here: the first block and its child at the next slot.
LockCandidates ==
    {FirstBlock,
     ValidChild(ValidChild(Node(GenesisBlock, GenesisState), 1), 2).block}

LockedProcessBlockStart(t) ==
    /\ CanRead(t, "state")
    /\ pc[t] = "idle"
    /\ ncalls < MaxCalls
    /\ ncalls' = ncalls + 1
    /\ \E block \in LockCandidates : ProcessBlockBegin(t, block)
    /\ UNCHANGED <<shared, slot_clock, nfaults>>

LockedProcessBlockCheckHead(t) == CanRead(t, "canonical_head") /\ ProcessBlockCheckHead(t)

LockedUpdateCanonicalHead(t) == CanWrite(t, "canonical_head") /\ UpdateCanonicalHead(t)

LockedUpdateStateWrite(t) == CanWrite(t, "state") /\ UpdateStateWrite(t)

LockedCatchupState == (\A u \in Threads : ~HoldsRead(u, "state")) /\ CatchupState

\* What a thread inside a call can do next.
LockThreadStep(t) ==
    \/ pc[t] # "idle" /\ ProduceAttestationData(t)
    \/ pc[t] # "idle" /\ ChainDump(t)
    \/ pc[t] # "idle" /\ GetBlockRoots(t)
    \/ ProcessBlockLoadParent(t)
    \/ ProcessBlockPutBlock(t)
    \/ ProcessBlockPutState(t)
    \/ ProcessBlockAddBlock(t)
    \/ LockedProcessBlockCheckHead(t)
    \/ LockedUpdateCanonicalHead(t)
    \/ UpdateStateReadClock(t)
    \/ LockedUpdateStateWrite(t)

LockNext ==
    \/ \E t \in Threads : ProduceAttestationData(t)
    \/ \E t \in Threads : ChainDump(t)
    \/ \E t \in Threads : GetBlockRoots(t)
    \/ \E t \in Threads : LockedProcessBlockStart(t)
    \/ \E t \in Threads : ProcessBlockLoadParent(t)
    \/ \E t \in Threads : ProcessBlockPutBlock(t)
    \/ \E t \in Threads : ProcessBlockPutState(t)
    \/ \E t \in Threads : ProcessBlockAddBlock(t)
    \/ \E t \in Threads : LockedProcessBlockCheckHead(t)
    \/ \E t \in Threads : LockedUpdateCanonicalHead(t)
    \/ \E t \in Threads : UpdateStateReadClock(t)
    \/ \E t \in Threads : LockedUpdateStateWrite(t)
    \/ \E t \in Threads : ForkChoiceStart(t)
    \/ LockedCatchupState
    \/ Tick

\* Every thread inside a call takes its next step when the step stays possible.
LockSpec ==
    Init /\ [][LockNext]_vars /\ \A t \in Threads : WF_vars(LockThreadStep(t))

\* ------------------------------------------------------------------ historical block roots

\* Slots are counted from the chain's genesis slot, which is far above the
\* floor of the unsigned slot type: a slot below 0 is a slot before genesis,
\* and a subtraction of slots never reaches that floor.

\* roots.iter().rev().cloned().collect()
Reversed(seq) == [i \in 1..Len(seq) |-> seq[Len(seq) + 1 - i]]

\* A variant of the loop that, for a slot older than the ring retains, takes
\* the oldest block root the ring still has instead of loading an older state.
RECURSIVE BlockRootsLoopOldestRetained(_, _, _, _, _, _, _)
BlockRootsLoopOldestRetained(st, slot, earliest_slot, step_by, roots, slots, lost) ==
    LET root == GetBlockRoot(st, slot)
        earliest_historic_slot == st.slot - SlotsPerHistoricalRoot
        oldest == GetBlockRoot(st, earliest_historic_slot)
        ended == [roots |-> roots, slots |-> slots, slot |-> slot, error |-> "none"]
    IN  IF slot < earliest_slot
        THEN ended
        ELSE IF root # None
        THEN BlockRootsLoopOldestRetained(st, slot - step_by, earliest_slot, step_by,
                                          Append(roots, Unwrap(root)), Append(slots, slot), lost)
        ELSE IF oldest = None
        THEN [ended EXCEPT !.error = "SlotOutOfBounds"]
        ELSE BlockRootsLoopOldestRetained(st, slot - step_by, earliest_slot, step_by,
                                          Append(roots, Unwrap(oldest)), Append(slots, slot), lost)

\* The loop of get_block_roots (lines 405-436) on the caller's state: roots
\* are taken from the block-root ring while the slot is in it; when it is
\* not, the state the ring's oldest state root names is loaded from the Store
\* and the loop goes on with that state, or ends if there is none.
\* lost: the slot of a state the Store fails to load (-1: none).
\* slots: the slot each root was pushed for.
RECURSIVE BlockRootsLoop(_, _, _, _, _, _, _)
BlockRootsLoop(st, slot, earliest_slot, step_by, roots, slots, lost) ==
    LET root == GetBlockRoot(st, slot)
        earliest_historic_slot == st.slot - SlotsPerHistoricalRoot
        new_state_root == GetStateRoot(st, earliest_historic_slot)
        older == IF new_state_root = None \/ earliest_historic_slot = lost THEN None
                 ELSE StoreGetState(Unwrap(new_state_root))
        ended == [roots |-> roots, slots |-> slots, slot |-> slot, error |-> "none"]
    IN  IF root # None
        THEN IF slot < earliest_slot
             THEN ended
             ELSE BlockRootsLoop(st, slot - step_by, earliest_slot, step_by,
                                 Append(roots, Unwrap(root)), Append(slots, slot), lost)
        ELSE IF new_state_root = None
        THEN [ended EXCEPT !.error = "SlotOutOfBounds"]
        ELSE IF older = None
        THEN ended
        ELSE BlockRootsLoop(Unwrap(older), slot, earliest_slot, step_by, roots, slots, lost)

\* What get_block_roots returns on success.
OkRoots(roots) == [res |-> "Ok", kind |-> "Vec<Hash256>", reason |-> roots]

\* The slots of the states the loop may ask the Store for.
LoadFaults(st) ==
    {-1} \cup {s \in 0..MaxRootsSlot : s + SlotsPerHistoricalRoot <= st.slot}

\* get_block_roots(earliest_slot, count, skip), to the first test: the
\* working state is cloned and the highest slot of the series computed.
GetBlockRootsStart(t) ==
    /\ pc[t] = "idle"
    /\ ncalls < MaxCalls
    /\ ncalls' = ncalls + 1
    /\ \E earliest_slot \in 0..MaxRootsSlot, count \in 0..MaxCount, skip \in 0..MaxSkip :
        LET slot == earliest_slot + count * (skip + 1) - 1
        IN  /\ local' = [local EXCEPT ![t] =
                    [op |-> "get_block_roots", earliest_slot |-> earliest_slot,
                     count |-> count, skip |-> skip, step_by |-> skip + 1,
                     state |-> state, slot |-> slot, roots |-> <<>>, slots |-> <<>>]]
            /\ log' = [log EXCEPT ![t] = <<"state.read">>]
            /\ IF slot = state.slot
               THEN Goto(t, "block_roots.head_slot")
               ELSE IF slot >= state.slot
               THEN Return(t, Err("SlotOutOfBounds"))
               ELSE Goto(t, "block_roots.loop")
    /\ UNCHANGED <<shared, slot_clock, nfaults>>

\* self.head().beacon_block.slot == slot
GetBlockRootsHeadSlot(t) ==
    /\ pc[t] = "block_roots.head_slot"
    /\ Logged(t, <<"canonical_head.read">>)
    /\ IF canonical_head.beacon_block.slot = local[t].slot
       THEN Goto(t, "block_roots.head_root")
       ELSE Return(t, Err("SlotOutOfBounds"))
    /\ UNCHANGED <<shared, slot_clock, local, ncalls, nfaults>>

\* roots.push(self.head().beacon_block_root); slot -= step_by
GetBlockRootsHeadRoot(t) ==
    /\ pc[t] = "block_roots.head_root"
    /\ Logged(t, <<"canonical_head.read">>)
    /\ local' = [local EXCEPT ![t].roots = <<canonical_head.beacon_block_root>>,
                              ![t].slots = <<local[t].slot>>,
                              ![t].slot = @ - local[t].step_by]
    /\ Goto(t, "block_roots.loop")
    /\ UNCHANGED <<shared, slot_clock, ncalls, nfaults>>

\* A variant of the final test that looks at the slot only.
SanityCheckSlotOnly(slot, earliest_slot, roots, count) == slot <= earliest_slot

\* (slot <= earliest_slot) && (roots.len() == count)
SanityCheck(slot, earliest_slot, roots, count) ==
    slot <= earliest_slot /\ Len(roots) = count

\* The loop and the test of what it collected.
GetBlockRootsLoop(t) ==
    /\ pc[t] = "block_roots.loop"
    /\ \E lost \in LoadFaults(local[t].state) :
        LET l == local[t]
            walked == BlockRootsLoop(l.state, l.slot, l.earliest_slot, l.step_by,
                                     l.roots, l.slots, lost)
        IN  /\ IF lost = -1 THEN NoFault ELSE Fault
            /\ local' = [local EXCEPT ![t].roots = walked.roots,
                                      ![t].slots = walked.slots,
                                      ![t].slot = walked.slot]
            /\ IF walked.error # "none"
               THEN Return(t, Err(walked.error))
               ELSE IF SanityCheck(walked.slot, l.earliest_slot, walked.roots, l.count)
               THEN Return(t, OkRoots(Reversed(walked.roots)))
               ELSE Return(t, Err("SlotOutOfBounds"))
    /\ Logged(t, <<"store.get_state">>)
    /\ UNCHANGED <<shared, slot_clock, ncalls>>

\* The node of the block tree a block root names, and the nodes from the
\* genesis block to a node.
NodeOf(block_root) == CHOOSE n \in Tree : BlockRoot(n.block) = block_root

RECURSIVE ChainTo(_)
ChainTo(n) ==
    IF n.block = GenesisBlock THEN {n}
    ELSE {n} \cup ChainTo(NodeOf(n.block.previous_block_root))

\* A chain that has accepted the blocks from genesis to node n, one call
\* after the other, and whose working state has been advanced to slot w.
ChainAt(n, w) ==
    [store |-> [blocks |-> [r \in {BlockRoot(m.block) : m \in ChainTo(n)} |-> NodeOf(r).block],
                states |-> [r \in {StateRoot(m.state) : m \in ChainTo(n)} |->
                               (CHOOSE m \in ChainTo(n) : StateRoot(m.state) = r).state]],
     fork_choice |-> {BlockRoot(m.block) : m \in ChainTo(n) \ {Node(GenesisBlock, GenesisState)}},
     canonical_head |-> CheckPoint(n.block, BlockRoot(n.block), n.state, StateRoot(n.state)),
     finalized_head |-> FromGenesis(GenesisState, GenesisBlock).finalized_head,
     state |-> AdvanceState(n.state, w, -1).state]

RootsInit ==
    /\ \E n \in Tree :
       \E w \in n.block.slot..MaxRootsSlot :
          LET chain == ChainAt(n, w)
          IN  /\ store = chain.store
              /\ fork_choice = chain.fork_choice
              /\ canonical_head = chain.canonical_head
              /\ finalized_head = chain.finalized_head
              /\ state = chain.state
              /\ op_pool = {}
              /\ slot_clock = w
    /\ pc = [t \in Threads |-> "idle"]
    /\ local = [t \in Threads |-> NoCall]
    /\ outcome = [t \in Threads |-> NoOutcome]
    /\ log = [t \in Threads |-> <<>>]
    /\ ncalls = 0
    /\ nfaults = 0

\* get_block_roots next to the calls that change head and working state.
RootsNext ==
    \/ \E t \in Threads : GetBlockRootsStart(t)
    \/ \E t \in Threads : GetBlockRootsHeadSlot(t)
    \/ \E t \in Threads : GetBlockRootsHeadRoot(t)
    \/ \E t \in Threads : GetBlockRootsLoop(t)
    \/ \E t \in Threads : ProcessBlockStart(t)
    \/ \E t \in Threads : ProcessBlockLoadParent(t)
    \/ \E t \in Threads : ProcessBlockPutBlock(t)
    \/ \E t \in Threads : ProcessBlockPutState(t)
    \/ \E t \in Threads : ProcessBlockAddBlock(t)
    \/ \E t \in Threads : ProcessBlockCheckHead(t)
    \/ \E t \in Threads : UpdateCanonicalHead(t)
    \/ \E t \in Threads : UpdateStateReadClock(t)
    \/ \E t \in Threads : UpdateStateWrite(t)
    \/ CatchupState
    \/ Tick

RootsSpec == RootsInit /\ [][RootsNext]_vars

\* ------------------------------------------------------------------ the loop of get_block_roots, one iteration at a time

\* The final test on what the loop has left (lines 439-447).
BlockRootsResult(l) ==
    IF SanityCheck(l.slot, l.earliest_slot, l.roots, l.count)
    THEN OkRoots(Reversed(l.roots))
    ELSE Err("SlotOutOfBounds")

\* usize arithmetic (lines 385 and 394): a result above usize::MAX is a panic
\* in a build with overflow checks and wraps around in a build without.
UsizeWrap(n) == n % (UsizeMax + 1)

Panic(message) == [res |-> "Panic", kind |-> "overflow", reason |-> message]

\* get_block_roots(earliest_slot, count, skip), to the first test, for
\* every count and skip of the usize type and in either build:
\* Slot::from(skip + 1), the clone of the working state, and
\* earliest_slot + Slot::from(count * (skip + 1)) - 1.
GetBlockRootsStartAnyInput(t) ==
    /\ pc[t] = "idle"
    /\ ncalls < MaxCalls
    /\ ncalls' = ncalls + 1
    /\ \E earliest_slot \in 0..MaxRootsSlot, count \in 0..UsizeMax, skip \in 0..UsizeMax,
          overflow_checks \in BOOLEAN :
        LET step_by == UsizeWrap(skip + 1)
            span == UsizeWrap(count * step_by)
            slot == earliest_slot + span - 1
            call == [op |-> "get_block_roots", earliest_slot |-> earliest_slot,
                     count |-> count, skip |-> skip, step_by |-> step_by,
                     state |-> state, slot |-> slot, roots |-> <<>>, slots |-> <<>>]
        IN  /\ local' = [local EXCEPT ![t] = call]
            /\ IF overflow_checks /\ skip + 1 > UsizeMax
               THEN /\ pc' = [pc EXCEPT ![t] = "panicked"]
                    /\ outcome' = [outcome EXCEPT ![t] = Panic("attempt to add with overflow")]
                    /\ log' = [log EXCEPT ![t] = <<>>]
               ELSE IF overflow_checks /\ count * step_by > UsizeMax
               THEN /\ pc' = [pc EXCEPT ![t] = "panicked"]
                    /\ outcome' = [outcome EXCEPT ![t] =
                                       Panic("attempt to multiply with overflow")]
                    /\ log' = [log EXCEPT ![t] = <<"state.read">>]
               ELSE /\ log' = [log EXCEPT ![t] = <<"state.read">>]
                    /\ IF slot = state.slot
                       THEN Goto(t, "block_roots.head_slot")
                       ELSE IF slot >= state.slot
                       THEN Return(t, Err("SlotOutOfBounds"))
                       ELSE Goto(t, "block_roots.loop")
    /\ UNCHANGED <<shared, slot_clock, nfaults>>

\* One iteration of the loop (lines 405-436): a slot the state's ring has
\* ends the loop when it is below earliest_slot and is pushed and stepped
\* down otherwise; a slot the ring does not have makes the state named by
\* the ring's oldest state root the loop's state, or ends the loop when the
\* Store does not give it; an iteration that ends the loop goes on to the
\* final test.
GetBlockRootsIteration(t) ==
    /\ pc[t] = "block_roots.loop"
    /\ LET l == local[t]
           root == GetBlockRoot(l.state, l.slot)
           earliest_historic_slot == l.state.slot - SlotsPerHistoricalRoot
           new_state_root == GetStateRoot(l.state, earliest_historic_slot)
           older == StoreGetState(Unwrap(new_state_root))
       IN  IF root # None
           THEN IF l.slot < l.earliest_slot
                THEN /\ Return(t, BlockRootsResult(l))
                     /\ UNCHANGED <<local, log, nfaults>>
                ELSE /\ local' = [local EXCEPT ![t].roots = Append(@, Unwrap(root)),
                                               ![t].slots = Append(@, l.slot),
                                               ![t].slot = @ - l.step_by]
                     /\ UNCHANGED <<pc, outcome, log, nfaults>>
           ELSE IF new_state_root = None
           THEN /\ Return(t, Err("SlotOutOfBounds"))
                /\ UNCHANGED <<local, log, nfaults>>
           ELSE \/ /\ NoFault
                   /\ older # None
                   /\ local' = [local EXCEPT ![t].state = Unwrap(older)]
                   /\ Logged(t, <<"store.get_state">>)
                   /\ UNCHANGED <<pc, outcome>>
                \/ /\ IF older = None THEN NoFault ELSE Fault
                   /\ Return(t, BlockRootsResult(l))
                   /\ Logged(t, <<"store.get_state">>)
                   /\ UNCHANGED local
    /\ UNCHANGED <<shared, slot_clock, ncalls>>

\* The steps of a call of get_block_roots after its first.
WalkStep(t) ==
    \/ GetBlockRootsHeadSlot(t)
    \/ GetBlockRootsHeadRoot(t)
    \/ GetBlockRootsIteration(t)

WalkNext ==
    \/ \E t \in Threads : GetBlockRootsStartAnyInput(t)
    \/ \E t \in Threads : GetBlockRootsHeadSlot(t)
    \/ \E t \in Threads : GetBlockRootsHeadRoot(t)
    \/ \E t \in Threads : GetBlockRootsIteration(t)

\* A thread that is inside a call goes on with it: the call takes read locks
\* only, and nothing here holds a write lock.
WalkSpec ==
    RootsInit /\ [][WalkNext]_vars /\ \A t \in Threads : WF_vars(WalkStep(t))

\* ------------------------------------------------------------------ operation pool and block production

OperationKinds ==
    {"proposer_slashing", "attester_slashing", "attestation", "deposit",
     "voluntary_exit", "transfer"}

\* An operation, by what its validation looks at: the slots of a state for
\* which it is valid, and whether its signature is good.
Operation(kind, from, until, signed) ==
    [kind |-> kind, from |-> from, until |-> until, signed |-> signed]

Operations ==
    {Operation(kind, w[1], w[2], signed) :
        kind \in OperationKinds, w \in {<<0, 1>>, <<2, MaxSlot>>}, signed \in BOOLEAN}

\* The validation of an operation against a state.
ValidFor(op, st) == op.signed /\ op.from <= st.slot /\ st.slot <= op.until

\* A variant of the insertion that keeps the operation whatever the
\* validation says.
InsertOperationAnyway(pool, op, st) ==
    [ok |-> ValidFor(op, st), pool |-> pool \cup {op}]

\* OperationPool::insert_*(op, state, spec): an operation that is valid for
\* the state is added (one that is there already is not stored twice); one
\* that is not is refused and the pool stays as it is.
InsertOperation(pool, op, st) ==
    IF ValidFor(op, st)
    THEN [ok |-> TRUE, pool |-> pool \cup {op}]
    ELSE [ok |-> FALSE, pool |-> pool]

\* OperationPool::get_*(state, spec): the operations of a kind that are valid
\* for the state.
GetOperations(pool, kind, st) == {op \in pool : op.kind = kind /\ ValidFor(op, st)}

\* A variant of the calls that hands the operation to a pool that keeps it
\* whatever the validation says.
ProcessOperationAnyway(t) ==
    /\ pc[t] = "idle"
    /\ CanRead(t, "state")
    /\ ncalls < MaxCalls
    /\ ncalls' = ncalls + 1
    /\ \E op \in Operations :
        LET inserted == InsertOperationAnyway(op_pool, op, state)
        IN  /\ op_pool' = inserted.pool
            /\ local' = [local EXCEPT ![t] =
                    [op |-> "process_operation", operation |-> op, state |-> state]]
            /\ log' = [log EXCEPT ![t] = <<"state.read">>]
            /\ Return(t, IF inserted.ok THEN OkUnit ELSE Err("ValidationError"))
    /\ UNCHANGED <<store, fork_choice, canonical_head, finalized_head, state, slot_clock,
                   nfaults>>

\* process_attestation, process_deposit, process_voluntary_exit,
\* process_transfer, process_proposer_slashing, process_attester_slashing:
\* the operation is validated against the working state read for the call
\* and inserted.
ProcessOperation(t) ==
    /\ pc[t] = "idle"
    /\ CanRead(t, "state")
    /\ ncalls < MaxCalls
    /\ ncalls' = ncalls + 1
    /\ \E op \in Operations :
        LET inserted == InsertOperation(op_pool, op, state)
        IN  /\ op_pool' = inserted.pool
            /\ local' = [local EXCEPT ![t] =
                    [op |-> "process_operation", operation |-> op, state |-> state]]
            /\ log' = [log EXCEPT ![t] = <<"state.read">>]
            /\ Return(t, IF inserted.ok THEN OkUnit ELSE Err("ValidationError"))
    /\ UNCHANGED <<store, fork_choice, canonical_head, finalized_head, state, slot_clock,
                   nfaults>>

\* The block produce_block assembles.
ProducedBlock(slot, previous_block_root, state_root, signature, body) ==
    [slot |-> slot, previous_block_root |-> previous_block_root,
     state_root |-> state_root, signature |-> signature, body |-> body]

EmptySignature == "empty_signature"

\* The operations of a block body.
BodyOperations(body) ==
    body.proposer_slashings \cup body.attester_slashings \cup body.attestations
    \cup body.deposits \cup body.voluntary_exits \cup body.transfers

\* per_block_processing_without_verifying_block_signature: the header checks
\* of per_block_processing and the validation of every operation of the body
\* against the state.
PerBlockProcessingWithoutVerifyingBlockSignature(st, block) ==
    IF /\ block.slot = st.slot
       /\ block.previous_block_root = TreeHashRoot(st.latest_block_header)
       /\ \A op \in BodyOperations(block.body) : ValidFor(op, st)
    THEN [ok |-> TRUE,
          state |-> [st EXCEPT !.latest_block_header = TemporaryBlockHeader(block),
                               !.history = Append(@, block.body)]]
    ELSE [ok |-> FALSE, state |-> st]

\* produce_block(randao_reveal), to the block root of the previous slot: the
\* working state is cloned and the clone's epoch cache built.
ProduceBlockStart(t) ==
    /\ pc[t] = "idle"
    /\ CanRead(t, "state")
    /\ ncalls < MaxCalls
    /\ ncalls' = ncalls + 1
    /\ log' = [log EXCEPT ![t] = <<"state.read", "state.read">>]
    /\ LET previous_block_root == GetBlockRoot(state, state.slot - 1)
           call == [op |-> "produce_block", randao_reveal |-> "randao_reveal",
                    state |-> state, previous_block_root |-> previous_block_root,
                    selected |-> [kind \in OperationKinds |-> {}],
                    read |-> [kind \in OperationKinds |-> None],
                    block |-> None, post_state |-> None]
       IN  /\ local' = [local EXCEPT ![t] = call]
           /\ \/ \* state.build_epoch_cache(RelativeEpoch::Current, &self.spec)? fails
                 /\ Fault
                 /\ Return(t, Err("BeaconStateError"))
              \/ /\ NoFault
                 /\ IF previous_block_root = None
                    THEN Return(t, Err("UnableToGetBlockRootFromState"))
                    ELSE Goto(t, "produce.slashings")
    /\ UNCHANGED <<shared, slot_clock>>

\* A variant of the selection that takes what it selects out of the pool.
ProduceBlockSelectDraining(t, label, kinds, next) ==
    /\ pc[t] = label
    /\ CanRead(t, "state")
    /\ Logged(t, <<"state.read">>)
    /\ local' = [local EXCEPT
            ![t].selected = [kind \in OperationKinds |->
                                IF kind \in kinds THEN GetOperations(op_pool, kind, state)
                                ELSE @[kind]],
            ![t].read = [kind \in OperationKinds |->
                                IF kind \in kinds THEN Some(state) ELSE @[kind]]]
    /\ op_pool' = {op \in op_pool : op.kind \notin kinds \/ ~ValidFor(op, state)}
    /\ Goto(t, next)
    /\ UNCHANGED <<store, fork_choice, canonical_head, finalized_head, state, slot_clock,
                   ncalls, nfaults>>

\* One call of self.op_pool.get_*(&*self.state.read(), &self.spec) for the
\* given kinds: what it returns and the state it was given.
ProduceBlockSelect(t, label, kinds, next) ==
    /\ pc[t] = label
    /\ CanRead(t, "state")
    /\ Logged(t, <<"state.read">>)
    /\ local' = [local EXCEPT
            ![t].selected = [kind \in OperationKinds |->
                                IF kind \in kinds THEN GetOperations(op_pool, kind, state)
                                ELSE @[kind]],
            ![t].read = [kind \in OperationKinds |->
                                IF kind \in kinds THEN Some(state) ELSE @[kind]]]
    /\ Goto(t, next)
    /\ UNCHANGED <<shared, slot_clock, ncalls, nfaults>>

\* A variant that leaves the block's state root as it was assembled.
SetStateRootSkipped(block, state_root) == block

\* block.state_root = state_root
SetStateRoot(block, state_root) == [block EXCEPT !.state_root = state_root]

\* The block is assembled, applied to the clone and given the clone's root.
ProduceBlockApply(t) ==
    /\ pc[t] = "produce.apply"
    /\ LET l == local[t]
           body == [randao_reveal |-> l.randao_reveal,
                    proposer_slashings |-> l.selected["proposer_slashing"],
                    attester_slashings |-> l.selected["attester_slashing"],
                    attestations |-> l.selected["attestation"],
                    deposits |-> l.selected["deposit"],
                    voluntary_exits |-> l.selected["voluntary_exit"],
                    transfers |-> l.selected["transfer"]]
           block == ProducedBlock(l.state.slot, Unwrap(l.previous_block_root), ZeroHash,
                                  EmptySignature, body)
           applied == PerBlockProcessingWithoutVerifyingBlockSignature(l.state, block)
           state_root == StateRoot(applied.state)
       IN  IF applied.ok
           THEN /\ local' = [local EXCEPT ![t].block = Some(SetStateRoot(block, state_root)),
                                          ![t].post_state = Some(applied.state)]
                /\ Return(t, [res |-> "Ok", kind |-> "(BeaconBlock, BeaconState)",
                              reason |-> "()"])
           ELSE /\ UNCHANGED local
                /\ Return(t, Err("BlockProcessingError"))
    /\ UNCHANGED <<shared, slot_clock, log, ncalls, nfaults>>

\* produce_block after the clone: the slashings are read in a statement of
\* their own; the four reads of the block literal are made in one statement,
\* each read guard on the working state held to the statement's end.
ProduceBlock(t) ==
    \/ ProduceBlockSelect(t, "produce.slashings", {"proposer_slashing", "attester_slashing"},
                          "produce.attestations")
    \/ ProduceBlockSelect(t, "produce.attestations", {"attestation"}, "produce.deposits")
    \/ ProduceBlockSelect(t, "produce.deposits", {"deposit"}, "produce.voluntary_exits")
    \/ ProduceBlockSelect(t, "produce.voluntary_exits", {"voluntary_exit"}, "produce.transfers")
    \/ ProduceBlockSelect(t, "produce.transfers", {"transfer"}, "produce.apply")
    \/ ProduceBlockApply(t)

\* A chain that has accepted blocks, with operations in its pool that were
\* valid when they were inserted.
ProduceInit ==
    /\ \E n \in Tree :
       \E w \in n.block.slot..MaxSlot :
          LET chain == ChainAt(n, w)
          IN  /\ store = chain.store
              /\ fork_choice = chain.fork_choice
              /\ canonical_head = chain.canonical_head
              /\ finalized_head = chain.finalized_head
              /\ state = chain.state
              /\ slot_clock = w
              /\ op_pool \in {{}, {op \in Operations : op.signed /\ op.from <= w}}
    /\ pc = [t \in Threads |-> "idle"]
    /\ local = [t \in Threads |-> NoCall]
    /\ outcome = [t \in Threads |-> NoOutcome]
    /\ log = [t \in Threads |-> <<>>]
    /\ ncalls = 0
    /\ nfaults = 0

ProduceNext ==
    \/ \E t \in Threads : ProduceBlockStart(t)
    \/ \E t \in Threads : ProduceBlock(t)
    \/ \E t \in Threads : ProcessOperation(t)
    \/ \E t \in Threads : GetBlockRootsStart(t)
    \/ \E t \in Threads : GetBlockRootsHeadSlot(t)
    \/ \E t \in Threads : GetBlockRootsHeadRoot(t)
    \/ \E t \in Threads : GetBlockRootsLoop(t)
    \/ LockedCatchupState
    \/ Tick

ProduceSpec == ProduceInit /\ [][ProduceNext]_vars

\* ------------------------------------------------------------------ the checkpoints under their locks

HeadLocks == {"canonical_head", "finalized_head"}

CheckPointFields == <<"beacon_block", "beacon_block_root", "beacon_state", "beacon_state_root">>

\* The checkpoint of a block and its state.
CheckPointOf(n) == CheckPoint(n.block, BlockRoot(n.block), n.state, StateRoot(n.state))

\* The checkpoint a lock protects.
Guarded(lock) == IF lock = "canonical_head" THEN canonical_head ELSE finalized_head

\* Thread t holds the write guard of the lock: it is inside
\* update_canonical_head or update_finalized_head.
HoldsHeadWrite(t, lock) ==
    /\ local[t].op = "update_head"
    /\ local[t].lock = lock
    /\ pc[t] = "checkpoint.update"

\* Thread t holds a read guard head() or finalized_head() returned.
HoldsHeadRead(t, lock) ==
    /\ local[t].op = "head"
    /\ local[t].lock = lock
    /\ pc[t] = "checkpoint.read"

\* A write lock that is granted whoever holds a guard.
HeadWriteGrantedAlways(t, lock) == TRUE

\* self.canonical_head.write(), self.finalized_head.write(): granted when no
\* other thread holds a guard of the lock.
HeadWriteGranted(t, lock) ==
    \A u \in Threads \ {t} : ~HoldsHeadWrite(u, lock) /\ ~HoldsHeadRead(u, lock)

\* self.canonical_head.read(), self.finalized_head.read(): granted when no
\* other thread holds the write guard.
HeadReadGranted(t, lock) == \A u \in Threads \ {t} : ~HoldsHeadWrite(u, lock)

\* update_canonical_head, update_finalized_head: the write guard is taken.
UpdateHeadStart(t) ==
    /\ pc[t] = "idle"
    /\ ncalls < MaxCalls
    /\ ncalls' = ncalls + 1
    /\ \E lock \in HeadLocks :
       \E n \in Tree :
          /\ HeadWriteGranted(t, lock)
          /\ local' = [local EXCEPT ![t] =
                  [op |-> "update_head", lock |-> lock, new |-> CheckPointOf(n),
                   written |-> 0]]
          /\ log' = [log EXCEPT ![t] = <<lock \o ".write">>]
    /\ Goto(t, "checkpoint.update")
    /\ UNCHANGED <<shared, slot_clock, nfaults>>

\* CheckPoint::update under the write guard: the four fields are assigned
\* one after the other; the guard is dropped when the function returns.
CheckPointUpdate(t) ==
    /\ pc[t] = "checkpoint.update"
    /\ LET l == local[t]
           field == CheckPointFields[l.written + 1]
           updated == [Guarded(l.lock) EXCEPT ![field] = l.new[field]]
       IN  /\ IF l.lock = "canonical_head"
              THEN canonical_head' = updated /\ UNCHANGED finalized_head
              ELSE finalized_head' = updated /\ UNCHANGED canonical_head
           /\ local' = [local EXCEPT ![t].written = @ + 1]
           /\ IF l.written + 1 = Len(CheckPointFields)
              THEN Return(t, OkUnit)
              ELSE UNCHANGED <<pc, outcome>>
    /\ UNCHANGED <<store, fork_choice, state, op_pool, slot_clock, log, ncalls, nfaults>>

\* head(), finalized_head(): the read guard is returned to the caller.
HeadStart(t) ==
    /\ pc[t] = "idle"
    /\ ncalls < MaxCalls
    /\ ncalls' = ncalls + 1
    /\ \E lock \in HeadLocks :
          /\ HeadReadGranted(t, lock)
          /\ local' = [local EXCEPT ![t] = [op |-> "head", lock |-> lock, seen |-> <<>>]]
          /\ log' = [log EXCEPT ![t] = <<lock \o ".read">>]
    /\ Goto(t, "checkpoint.read")
    /\ UNCHANGED <<shared, slot_clock, nfaults>>

\* The caller reads the checkpoint through the guard, a field at a time, and
\* drops the guard.
HeadRead(t) ==
    /\ pc[t] = "checkpoint.read"
    /\ LET l == local[t]
           field == CheckPointFields[Len(l.seen) + 1]
       IN  /\ local' = [local EXCEPT ![t].seen = Append(@, Guarded(l.lock)[field])]
           /\ IF Len(l.seen) + 1 = Len(CheckPointFields)
              THEN Return(t, OkUnit)
              ELSE UNCHANGED <<pc, outcome>>
    /\ UNCHANGED <<shared, slot_clock, log, ncalls, nfaults>>

HeadNext ==
    \/ \E t \in Threads : UpdateHeadStart(t)
    \/ \E t \in Threads : CheckPointUpdate(t)
    \/ \E t \in Threads : HeadStart(t)
    \/ \E t \in Threads : HeadRead(t)
    \/ \E t \in Threads : Finish(t)

HeadSpec == Init /\ [][HeadNext]_vars

\* ------------------------------------------------------------------ a fresh instance over the same Store

\* from_genesis called with the genesis state and block over the Store of
\* the running chain, whose other fields the new instance replaces: both
\* checkpoints and the working state are built from the arguments, the fork
\* choice and the operation pool are new. before: the canonical head of the
\* instance it replaces; call: the number of this call.
RestartFromGenesis(t) ==
    /\ pc[t] = "idle"
    /\ \A u \in Threads \ {t} : pc[u] = "idle"
    /\ ncalls < MaxCalls
    /\ ncalls' = ncalls + 1
    /\ local' = [local EXCEPT ![t] =
            [op |-> "from_genesis", genesis_state |-> GenesisState,
             genesis_block |-> GenesisBlock, before |-> canonical_head,
             call |-> ncalls + 1]]
    /\ LET chain == FromGenesis(GenesisState, GenesisBlock)
       IN  \/ \* genesis_state.build_all_caches(&spec)? fails
              /\ Fault
              /\ store' = [blocks |-> chain.store.blocks @@ store.blocks,
                           states |-> chain.store.states @@ store.states]
              /\ log' = [log EXCEPT ![t] = <<"store.put_state", "store.put_block">>]
              /\ Return(t, Err("BeaconStateError"))
              /\ UNCHANGED <<fork_choice, canonical_head, finalized_head, state, op_pool>>
           \/ /\ NoFault
              /\ store' = [blocks |-> chain.store.blocks @@ store.blocks,
                           states |-> chain.store.states @@ store.states]
              /\ finalized_head' = chain.finalized_head
              /\ canonical_head' = chain.canonical_head
              /\ state' = chain.state
              /\ fork_choice' = {}
              /\ op_pool' = {}
              /\ log' = [log EXCEPT ![t] = <<"store.put_state", "store.put_block">>]
              /\ Return(t, OkUnit)
    /\ UNCHANGED slot_clock

RestartNext ==
    \/ Next
    \/ \E t \in Threads : RestartFromGenesis(t)

RestartSpec == Init /\ [][RestartNext]_vars

\* ------------------------------------------------------------------ voluntary exits

\* spec.far_future_epoch: an epoch no state reaches.
FarFutureEpoch == 1000000

\* slot.epoch(slots_per_epoch)
EpochOf(slot) == slot \div SlotsPerEpoch

\* state.current_epoch(spec)
CurrentEpoch(st) == EpochOf(st.slot)

\* Epoch - Epoch, which stops at zero.
EpochSub(a, b) == IF a >= b THEN a - b ELSE 0

\* spec.get_domain(epoch, domain_type, fork): the fork version in force at
\* the epoch, with the domain type.
GetDomain(epoch, domain_type, fork) ==
    <<IF epoch < fork.epoch THEN fork.previous_version ELSE fork.current_version,
      domain_type>>

\* exit.signed_root(): the root of the exit without its signature.
SignedRoot(exit) == TreeHashRoot(<<exit.epoch, exit.validator_index>>)

\* A signature, by what it was made over and with which key; verification
\* compares the three.
Signature(message, domain, pubkey) ==
    [message |-> message, domain |-> domain, pubkey |-> pubkey]

SignatureVerify(signature, message, domain, pubkey) ==
    signature = Signature(message, domain, pubkey)

Validator(pubkey, activation_epoch, exit_epoch, initiated_exit) ==
    [pubkey |-> pubkey, activation_epoch |-> activation_epoch,
     exit_epoch |-> exit_epoch, initiated_exit |-> initiated_exit]

VoluntaryExit(epoch, validator_index, signature) ==
    [epoch |-> epoch, validator_index |-> validator_index, signature |-> signature]

ExitInvalid(reason) == [res |-> "Err", kind |-> "ExitInvalid", reason |-> reason]

\* A variant that does not look at whether the validator has initiated its
\* exit.
VerifyExitParametricNotInitiated(st, exit, time_independent_only) ==
    IF exit.validator_index >= Len(st.validator_registry)
    THEN ExitInvalid("ValidatorUnknown")
    ELSE LET validator == st.validator_registry[exit.validator_index + 1]
             lifespan == EpochSub(EpochOf(st.slot), validator.activation_epoch)
             message == SignedRoot(exit)
             domain == GetDomain(exit.epoch, "Exit", st.fork)
         IN  IF validator.exit_epoch # FarFutureEpoch THEN ExitInvalid("AlreadyExited")
             ELSE IF ~(time_independent_only \/ CurrentEpoch(st) >= exit.epoch)
             THEN ExitInvalid("FutureEpoch")
             ELSE IF ~(lifespan >= PersistentCommitteePeriod)
             THEN ExitInvalid("TooYoungToLeave")
             ELSE IF ~SignatureVerify(exit.signature, message, domain, validator.pubkey)
             THEN ExitInvalid("BadSignature")
             ELSE OkUnit

\* verify_exit_parametric(state, exit, spec, time_independent_only)
VerifyExitParametric(st, exit, time_independent_only) ==
    IF exit.validator_index >= Len(st.validator_registry)
    THEN ExitInvalid("ValidatorUnknown")
    ELSE LET validator == st.validator_registry[exit.validator_index + 1]
             lifespan == EpochSub(EpochOf(st.slot), validator.activation_epoch)
             message == SignedRoot(exit)
             domain == GetDomain(exit.epoch, "Exit", st.fork)
         IN  IF validator.exit_epoch # FarFutureEpoch THEN ExitInvalid("AlreadyExited")
             ELSE IF validator.initiated_exit THEN ExitInvalid("AlreadyInitiatedExited")
             ELSE IF ~(time_independent_only \/ CurrentEpoch(st) >= exit.epoch)
             THEN ExitInvalid("FutureEpoch")
             ELSE IF ~(lifespan >= PersistentCommitteePeriod)
             THEN ExitInvalid("TooYoungToLeave")
             ELSE IF ~SignatureVerify(exit.signature, message, domain, validator.pubkey)
             THEN ExitInvalid("BadSignature")
             ELSE OkUnit

VerifyExit(st, exit) == VerifyExitParametric(st, exit, FALSE)

VerifyExitTimeIndependentOnly(st, exit) == VerifyExitParametric(st, exit, TRUE)

\* The validators, registries, forks and exits the calls are given.
ExitValidators ==
    {Validator("pubkey", activation_epoch, exit_epoch, initiated_exit) :
        activation_epoch \in 0..1, exit_epoch \in {FarFutureEpoch, 1},
        initiated_exit \in BOOLEAN}

ExitRegistries == {<<validator>> : validator \in ExitValidators}

ExitForks ==
    {[previous_version |-> 0, current_version |-> 1, epoch |-> epoch] : epoch \in {0, 2}}

ExitSignatures(epoch, validator_index) ==
    LET message == TreeHashRoot(<<epoch, validator_index>>)
    IN  {Signature(message, <<version, "Exit">>, "pubkey") : version \in {0, 1}}
        \cup {Signature(message, <<1, "Transfer">>, "pubkey"),
              Signature(message, <<1, "Exit">>, "other_pubkey")}

VoluntaryExits ==
    UNION {{VoluntaryExit(epoch, validator_index, signature) :
                signature \in ExitSignatures(epoch, validator_index)} :
           epoch \in 0..MaxExitEpoch, validator_index \in 0..1}

\* The state of a caller, by what the verification of an exit reads.
ExitState(slot, validator_registry, fork) ==
    [slot |-> slot, validator_registry |-> validator_registry, fork |-> fork]

ExitCall(st, exit) ==
    [op |-> "verify_exit", state |-> st, exit |-> exit, time_independent_only |-> FALSE]

\* Both callers hold the same exit and the same registry and fork, in a
\* state of slot 0.
ExitInit ==
    LET chain == FromGenesis(GenesisState, GenesisBlock)
    IN  /\ store = chain.store
        /\ fork_choice = {}
        /\ canonical_head = chain.canonical_head
        /\ finalized_head = chain.finalized_head
        /\ state = chain.state
        /\ op_pool = {}
        /\ slot_clock = 0
        /\ pc = [t \in Threads |-> "idle"]
        /\ \E validator_registry \in ExitRegistries :
           \E fork \in ExitForks :
           \E exit \in VoluntaryExits :
              local = [t \in Threads |->
                          ExitCall(ExitState(0, validator_registry, fork), exit)]
        /\ outcome = [t \in Threads |-> NoOutcome]
        /\ log = [t \in Threads |-> <<>>]
        /\ ncalls = 0
        /\ nfaults = 0

\* The caller's state moves to its next slot; registry and fork stay.
ExitStateNextSlot(t) ==
    /\ pc[t] = "idle"
    /\ local[t].state.slot < MaxExitSlot
    /\ local' = [local EXCEPT ![t].state.slot = @ + 1]
    /\ UNCHANGED <<shared, slot_clock, pc, outcome, log, ncalls, nfaults>>

\* verify_exit(state, exit, spec)
VerifyExitCall(t) ==
    /\ pc[t] = "idle"
    /\ UNCHANGED local
    /\ Return(t, VerifyExit(local[t].state, local[t].exit))
    /\ UNCHANGED <<shared, slot_clock, log, ncalls, nfaults>>

\* verify_exit_time_independent_only(state, exit, spec)
VerifyExitTimeIndependentOnlyCall(t) ==
    /\ pc[t] = "idle"
    /\ local' = [local EXCEPT ![t].time_independent_only = TRUE]
    /\ Return(t, VerifyExitTimeIndependentOnly(local[t].state, local[t].exit))
    /\ UNCHANGED <<shared, slot_clock, log, ncalls, nfaults>>

ExitNext ==
    \/ \E t \in Threads : ExitStateNextSlot(t)
    \/ \E t \in Threads : VerifyExitCall(t)
    \/ \E t \in Threads : VerifyExitTimeIndependentOnlyCall(t)

ExitSpec == ExitInit /\ [][ExitNext]_vars

\* ------------------------------------------------------------------ swap-or-not shuffling

\* 2_usize.pow(24)
TwoPow24 == 16777216

\* usize::max_value() / 2, for a usize of 32 bits.
UsizeMaxHalf == 2147483647

Pow2(n) == IF n = 0 THEN 1 ELSE IF n = 1 THEN 2 ELSE IF n = 2 THEN 4 ELSE IF n = 3 THEN 8
           ELSE IF n = 4 THEN 16 ELSE IF n = 5 THEN 32 ELSE IF n = 6 THEN 64 ELSE 128

Max(a, b) == IF a >= b THEN a ELSE b

\* What the hash function returns for a seed, as far as the shuffle reads it:
\* for each round the integer of hash_with_round and the bytes of
\* hash_with_round_and_position. A seed stands for its hash values, so that
\* the seeds range over what a hash function could return. The byte read at
\* an even sum of block and byte offset is `byte`, at an odd one its
\* complement.
HashValues == [value : 0..(MaxListSize - 1), byte : 0..(Pow2(MaxListSize) - 1)]

Seeds == [1..MaxRounds -> HashValues]

\* bytes_to_int64(&hash_with_round(seed, round)[..])
HashWithRound(seed, round) == seed[round + 1].value

\* hash_with_round_and_position(seed, round, position)[i]
HashWithRoundAndPosition(seed, round, position, i) ==
    IF ((position \div 256) + i) % 2 = 0
    THEN seed[round + 1].byte
    ELSE 255 - seed[round + 1].byte

\* A variant of the round that reads the bit at the index instead of at the
\* larger of index and flip.
DoRoundAtIndex(seed, index, pivot, round, list_size) ==
    LET flip == (pivot + list_size - index) % list_size
        position == index
        byte == HashWithRoundAndPosition(seed, round, position, (position % 256) \div 8)
        bit == (byte \div Pow2(position % 8)) % 2
    IN  IF bit = 1 THEN flip ELSE index

\* do_round(seed, index, pivot, round, list_size)
DoRound(seed, index, pivot, round, list_size) ==
    LET flip == (pivot + list_size - index) % list_size
        position == Max(index, flip)
        byte == HashWithRoundAndPosition(seed, round, position, (position % 256) \div 8)
        bit == (byte \div Pow2(position % 8)) % 2
    IN  IF bit = 1 THEN flip ELSE index

\* The loop of get_permutated_index from round `round` on.
RECURSIVE PermutatedRounds(_, _, _, _, _)
PermutatedRounds(index, list_size, seed, round, shuffle_round_count) ==
    IF round >= shuffle_round_count THEN index
    ELSE LET pivot == HashWithRound(seed, round) % list_size
         IN  PermutatedRounds(DoRound(seed, index, pivot, round, list_size), list_size, seed,
                              round + 1, shuffle_round_count)

SomeIndex(index) == [res |-> "Some", kind |-> "usize", reason |-> index]

NoIndex == [res |-> "None", kind |-> "usize", reason |-> "()"]

\* A variant of the entry test that lets an index equal to list_size through.
RefusedBeyondListSize(index, list_size) ==
    \/ list_size = 0
    \/ index > list_size
    \/ list_size > UsizeMaxHalf
    \/ list_size > TwoPow24

\* The entry test of get_permutated_index.
Refused(index, list_size) ==
    \/ list_size = 0
    \/ index >= list_size
    \/ list_size > UsizeMaxHalf
    \/ list_size > TwoPow24

\* get_permutated_index(index, list_size, seed, shuffle_round_count)
GetPermutatedIndex(index, list_size, seed, shuffle_round_count) ==
    IF Refused(index, list_size)
    THEN NoIndex
    ELSE SomeIndex(PermutatedRounds(index, list_size, seed, 0, shuffle_round_count))

\* The list sizes and, for a list size, the indices the calls are given.
ListSizes == 0..MaxListSize \cup {TwoPow24, TwoPow24 + 1}

Indices(list_size) ==
    IF list_size <= MaxListSize THEN 0..list_size
    ELSE {0, 255, 256, TwoPow24 - 1, list_size - 1, list_size}

ShuffleCall(list_size, seed, shuffle_round_count) ==
    [op |-> "get_permutated_index", index |-> None, list_size |-> list_size,
     seed |-> seed, shuffle_round_count |-> shuffle_round_count]

\* Both callers hold the same seed, round count and list size.
ShuffleInit ==
    LET chain == FromGenesis(GenesisState, GenesisBlock)
    IN  /\ store = chain.store
        /\ fork_choice = {}
        /\ canonical_head = chain.canonical_head
        /\ finalized_head = chain.finalized_head
        /\ state = chain.state
        /\ op_pool = {}
        /\ slot_clock = 0
        /\ pc = [t \in Threads |-> "idle"]
        /\ \E list_size \in ListSizes :
           \E seed \in Seeds :
           \E shuffle_round_count \in 0..MaxRounds :
              local = [t \in Threads |-> ShuffleCall(list_size, seed, shuffle_round_count)]
        /\ outcome = [t \in Threads |-> NoOutcome]
        /\ log = [t \in Threads |-> <<>>]
        /\ ncalls = 0
        /\ nfaults = 0

GetPermutatedIndexCall(t) ==
    /\ pc[t] = "idle"
    /\ \E index \in Indices(local[t].list_size) :
          /\ local' = [local EXCEPT ![t].index = Some(index)]
          /\ Return(t, GetPermutatedIndex(index, local[t].list_size, local[t].seed,
                                          local[t].shuffle_round_count))
    /\ UNCHANGED <<shared, slot_clock, log, ncalls, nfaults>>

ShuffleNext == \E t \in Threads : GetPermutatedIndexCall(t)

ShuffleSpec == ShuffleInit /\ [][ShuffleNext]_vars

\* ------------------------------------------------------------------ fork choice on a chain with blocks

\* fork_choice() called on a chain that has accepted blocks: the steps of the
\* call, the clock, and catchup_state.
ForkChoiceNext ==
    \/ \E t \in Threads : ForkChoiceStart(t)
    \/ \E t \in Threads : UpdateCanonicalHead(t)
    \/ \E t \in Threads : UpdateStateReadClock(t)
    \/ \E t \in Threads : UpdateStateWrite(t)
    \/ CatchupState
    \/ Tick

ForkChoiceSpec == RootsInit /\ [][ForkChoiceNext]_vars

\* ------------------------------------------------------------------ outcome classification

\* What an error variant carries (SlotProcessingError(e), Invalid(e),
\* BeaconStateError(e)).
ErrorPayloads == {"e1", "e2"}

\* BlockProcessingError: Invalid(_) | BeaconStateError(_)
BlockProcessingErrors ==
    [variant : {"Invalid", "BeaconStateError"}, payload : ErrorPayloads]

\* InvalidBlock::SlotProcessingError(e) and InvalidBlock::PerBlockProcessingError(e)
SlotProcessingError(e) ==
    [res |-> "Ok", kind |-> "InvalidBlock", reason |-> "SlotProcessingError", error |-> e]

PerBlockProcessingError(e) ==
    [res |-> "Ok", kind |-> "InvalidBlock", reason |-> "PerBlockProcessingError", error |-> e]

\* Every value of BlockProcessingOutcome.
BlockProcessingOutcomes ==
    {ValidBlock("Processed")}
    \cup {FutureSlot(present_slot, block_slot) : present_slot \in 0..MaxSlot,
                                                 block_slot \in 0..MaxSlot}
    \cup {InvalidBlock("StateRootMismatch"), InvalidBlock("ParentUnknown")}
    \cup {SlotProcessingError(e) : e \in ErrorPayloads}
    \cup {PerBlockProcessingError(e) : e \in BlockProcessingErrors}

\* A variant of is_invalid() that takes every InvalidBlock for invalid.
IsInvalidAnyRejection(o) == o.kind = "InvalidBlock"

\* BlockProcessingOutcome::is_invalid()
IsInvalid(o) ==
    CASE o.kind = "ValidBlock" -> FALSE
      [] o.kind = "InvalidBlock" ->
            CASE o.reason = "FutureSlot" -> TRUE
              [] o.reason = "StateRootMismatch" -> TRUE
              [] o.reason = "ParentUnknown" -> FALSE
              [] o.reason = "SlotProcessingError" -> FALSE
              [] o.reason = "PerBlockProcessingError" ->
                    CASE o.error.variant = "Invalid" -> TRUE
                      [] o.error.variant = "BeaconStateError" -> FALSE

\* BlockProcessingOutcome::sucessfully_processed()
SucessfullyProcessed(o) ==
    CASE o.kind = "ValidBlock" -> TRUE
      [] OTHER -> FALSE

\* Each thread holds an outcome of process_block and has asked nothing of it.
ClassifyInit ==
    LET chain == FromGenesis(GenesisState, GenesisBlock)
    IN  /\ store = chain.store
        /\ fork_choice = {}
        /\ canonical_head = chain.canonical_head
        /\ finalized_head = chain.finalized_head
        /\ state = chain.state
        /\ op_pool = {}
        /\ slot_clock = 0
        /\ pc = [t \in Threads |-> "idle"]
        /\ local \in [Threads -> [op : {"classify"}, outcome : BlockProcessingOutcomes]]
        /\ outcome = [t \in Threads |-> NoOutcome]
        /\ log = [t \in Threads |-> <<>>]
        /\ ncalls = 0
        /\ nfaults = 0

\* What a thread has been answered by `method`, as a set (empty: not asked).
Answers(t, method) ==
    {log[t][i][2] : i \in {j \in DOMAIN log[t] : log[t][j][1] = method}}

\* outcome.is_invalid()
CallIsInvalid(t) ==
    /\ Answers(t, "is_invalid") = {}
    /\ log' = [log EXCEPT ![t] = Append(@, <<"is_invalid", IsInvalid(local[t].outcome)>>)]
    /\ UNCHANGED <<shared, slot_clock, pc, local, outcome, ncalls, nfaults>>

\* outcome.sucessfully_processed()
CallSucessfullyProcessed(t) ==
    /\ Answers(t, "sucessfully_processed") = {}
    /\ log' = [log EXCEPT ![t] =
                  Append(@, <<"sucessfully_processed", SucessfullyProcessed(local[t].outcome)>>)]
    /\ UNCHANGED <<shared, slot_clock, pc, local, outcome, ncalls, nfaults>>

ClassifyNext ==
    \/ \E t \in Threads : CallIsInvalid(t)
    \/ \E t \in Threads : CallSucessfullyProcessed(t)

ClassifySpec == ClassifyInit /\ [][ClassifyNext]_vars

\* ------------------------------------------------------------------ repeated per-slot transitions

\* The states per_slot_processing is applied to: the post-states of the valid
\* blocks (their latest block header still carries the zero state root).
SlotStartStates == {n.state : n \in Tree}

\* What a caller of per_slot_processing keeps: the state it started from, the
\* state it is transforming, the number of calls that returned Ok.
SlotCall(st) == [op |-> "per_slot_processing", start |-> st, state |-> st, applied |-> 0]

SlotInit ==
    LET chain == FromGenesis(GenesisState, GenesisBlock)
    IN  /\ store = chain.store
        /\ fork_choice = {}
        /\ canonical_head = chain.canonical_head
        /\ finalized_head = chain.finalized_head
        /\ state = chain.state
        /\ op_pool = {}
        /\ slot_clock = 0
        /\ pc = [t \in Threads |-> "idle"]
        /\ local \in [Threads -> {SlotCall(st) : st \in SlotStartStates}]
        /\ outcome = [t \in Threads |-> NoOutcome]
        /\ log = [t \in Threads |-> <<>>]
        /\ ncalls = 0
        /\ nfaults = 0

\* per_slot_processing(&mut state, spec) on the caller's own state; the
\* caller stops at the first error.
PerSlotProcessingCall(t) ==
    /\ pc[t] = "idle"
    /\ local[t].applied < MaxTransitions
    /\ \E epoch_ok \in (IF EpochBoundary(local[t].state.slot) THEN BOOLEAN ELSE {TRUE}) :
        LET r == PerSlotProcessing(local[t].state, epoch_ok)
        IN  IF r.ok
            THEN /\ NoFault
                 /\ local' = [local EXCEPT ![t].state = r.state, ![t].applied = @ + 1]
                 /\ UNCHANGED <<pc, outcome>>
            ELSE /\ Fault
                 /\ local' = [local EXCEPT ![t].state = r.state]
                 /\ Return(t, Err("EpochProcessingError"))
    /\ UNCHANGED <<shared, slot_clock, log, ncalls>>

SlotNext == \E t \in Threads : PerSlotProcessingCall(t)

SlotSpec == SlotInit /\ [][SlotNext]_vars

\* ------------------------------------------------------------------ properties

\* The threads inside (or just back from) a process_block call.
ProcessBlockCalls == {t \in Threads : local[t].op = "process_block"}

InLog(t, event) == \E i \in DOMAIN log[t] : log[t][i] = event

IsPrefix(s, r) == Len(s) <= Len(r) /\ SubSeq(r, 1, Len(s)) = s

\* What a call reads before the transition gates.
ReadsToParent == <<"state.read", "store.get_block">>

ReadsToState == <<"state.read", "store.get_block", "store.get_state">>

\* The accesses of a process_block call that accepts a block and extends the
\* head, in the order the claim C2 gives them.
AcceptanceOrder ==
    ReadsToState \o
    <<"store.put_block", "store.put_state", "fork_choice.add_block",
      "canonical_head.read", "canonical_head.write", "slot_clock.read", "state.write">>

Failed(event) ==
    event \in {"store.put_block failed", "store.put_state failed",
               "fork_choice.add_block failed"}

Succeeded(event) == ~Failed(event)

\* The first gate that fails for a call, from what the call was given and
\* what it read: the block, the present slot, the answers of the two Store
\* lookups, the slot at which the epoch transition failed. "none": no gate.
FirstFailedGate(l) ==
    IF l.block.slot > l.present_slot THEN "FutureSlot"
    ELSE IF l.parent_lookup = "absent" THEN "ParentUnknown"
    ELSE IF l.state_lookup = "absent" THEN "DBInconsistent"
    ELSE LET advanced == AdvanceState(Unwrap(l.parent_state), l.block.slot, l.bad_slot)
             applied == PerBlockProcessing(advanced.state, l.block)
         IN  IF ~advanced.ok THEN "SlotProcessingError"
             ELSE IF ~applied.ok THEN "PerBlockProcessingError"
             ELSE IF l.block.state_root # StateRoot(applied.state) THEN "StateRootMismatch"
             ELSE "none"

\* The Store answered the lookups the call has made (no I/O error).
LookupsAnswered(l) ==
    \/ l.parent_lookup = "absent"
    \/ l.parent_lookup = "found" /\ l.state_lookup \in {"absent", "found"}

\* C1: a process_block call returns the result of the first gate that fails,
\* in the order future slot, parent block, parent state, per-slot advance,
\* block application, state root; every such result is Ok(InvalidBlock(..))
\* except the missing parent state, which is Err(DBInconsistent); a call for
\* which no gate fails returns none of these. (Calls whose Store lookup
\* itself failed return the Store's error and are not gate results.)
C1_FirstFailedGateDecides ==
    \A t \in ProcessBlockCalls :
        LET l == local[t]
        IN  IF l.block.slot > l.present_slot
            THEN /\ pc[t] = "done"
                 /\ outcome[t] = FutureSlot(l.present_slot, l.block.slot)
            ELSE LookupsAnswered(l) =>
                 LET gate == FirstFailedGate(l)
                 IN  /\ l.parent_lookup = "found" =>
                            l.block.previous_block_root \in DOMAIN store.blocks
                     /\ l.state_lookup = "found" =>
                            l.parent_state = StoreGetState(
                                store.blocks[l.block.previous_block_root].state_root)
                     /\ IF gate = "none"
                        THEN pc[t] = "done" =>
                                /\ outcome[t].kind # "InvalidBlock"
                                /\ outcome[t] # Err("DBInconsistent")
                        ELSE /\ pc[t] = "done"
                             /\ outcome[t] = IF gate = "DBInconsistent"
                                             THEN Err("DBInconsistent")
                                             ELSE InvalidBlock(gate)

\* A call has returned FutureSlot for a block whose parent is also unknown.
C1_Witness ==
    \E t \in ProcessBlockCalls :
        /\ pc[t] = "done"
        /\ local[t].block.slot > local[t].present_slot
        /\ local[t].block.previous_block_root \notin DOMAIN store.blocks
        /\ outcome[t].reason = "FutureSlot"

\* C2: the accesses of a process_block call follow the order: the reads, put
\* block, put state, add_block, the head test, the canonical-head update, the
\* clock read, the working-state update; the Store is written and add_block
\* called only when no gate failed; the canonical head is written only when
\* the head the call saw was the block's parent; Processed is returned only
\* with the block and its state stored and the block added to fork choice.
C2_EffectsInOrder ==
    \A t \in ProcessBlockCalls :
        LET l == local[t]
        IN  /\ IsPrefix(SelectSeq(log[t], Succeeded), AcceptanceOrder)
            /\ Len(log[t]) > Len(ReadsToState) =>
                    /\ LookupsAnswered(l)
                    /\ FirstFailedGate(l) = "none"
            /\ InLog(t, "canonical_head.write") =>
                    l.head_seen = Some(l.block.previous_block_root)
            /\ (pc[t] = "done" /\ outcome[t] = ValidBlock("Processed")) =>
                    /\ StoreGetBlock(l.block_root) = Some(l.block)
                    /\ StoreGetState(l.block.state_root) = l.state
                    /\ l.block_root \in fork_choice
                    /\ IsPrefix(ReadsToState \o <<"store.put_block", "store.put_state",
                                                  "fork_choice.add_block">>, log[t])

\* A call has returned Processed after updating the head and the working state.
C2_Witness ==
    \E t \in ProcessBlockCalls :
        /\ pc[t] = "done"
        /\ outcome[t] = ValidBlock("Processed")
        /\ log[t] = AcceptanceOrder

\* The step of thread t that answers its two Store lookups and runs the
\* transition gates.
GatesStep(t) ==
    /\ pc[t] = "load_parent"
    /\ pc'[t] # "load_parent"
    /\ local'[t].parent_lookup # "DBError"
    /\ local'[t].state_lookup # "DBError"

\* C3: a process_block call whose block is not from a future slot, whose
\* parent block and parent state are stored, whose per-slot advance and block
\* application succeed, and whose declared state root differs from the root
\* of the resulting state, returns StateRootMismatch, has made no access but
\* its three reads, and its deciding step leaves Store, fork choice, both
\* heads and the working state as they were.
C3_StateRootMismatchRejected ==
    [][\A t \in Threads :
        (/\ GatesStep(t)
         /\ local[t].block.slot <= local[t].present_slot
         /\ local[t].block.previous_block_root \in DOMAIN store.blocks
         /\ store.blocks[local[t].block.previous_block_root].state_root
                \in DOMAIN store.states
         /\ LET block == local[t].block
                parent_block == store.blocks[block.previous_block_root]
                parent_state == store.states[parent_block.state_root]
                advanced == AdvanceState(parent_state, block.slot, local'[t].bad_slot)
                applied == PerBlockProcessing(advanced.state, block)
            IN  /\ advanced.ok
                /\ applied.ok
                /\ block.state_root # StateRoot(applied.state))
        => /\ pc'[t] = "done"
           /\ outcome'[t] = InvalidBlock("StateRootMismatch")
           /\ log'[t] = ReadsToState
           /\ UNCHANGED shared]_vars

\* A call has returned StateRootMismatch.
C3_Witness ==
    \E t \in ProcessBlockCalls :
        /\ pc[t] = "done"
        /\ outcome[t] = InvalidBlock("StateRootMismatch")
        /\ local[t].block.state_root # StateRoot(Unwrap(local[t].state))

\* C4: of two process_block calls in progress together on distinct blocks with
\* the same parent, at most one performs the eager update: it writes the
\* canonical head, and the other call does not write it again.
C4_OneEagerUpdate ==
    \A t1, t2 \in ProcessBlockCalls :
        (/\ t1 # t2
         /\ local[t1].block # local[t2].block
         /\ local[t1].block.previous_block_root = local[t2].block.previous_block_root)
        => ~(InLog(t1, "canonical_head.write") /\ InLog(t2, "canonical_head.write"))

\* C5: the working state's slot is at least the slot of the canonical head's
\* block.
C5_WorkingStateNotBehindHead == state.slot >= canonical_head.beacon_block.slot

\* C6: every stored block has the state under its state_root stored.
C6_StoredBlockHasState ==
    \A block_root \in DOMAIN store.blocks :
        store.blocks[block_root].state_root \in DOMAIN store.states

\* A checkpoint's block and state are stored under the checkpoint's roots.
CheckPointStored(head) ==
    /\ StoreGetBlock(head.beacon_block_root) = Some(head.beacon_block)
    /\ StoreGetState(head.beacon_state_root) = Some(head.beacon_state)

\* C7: the canonical head and the finalized head hold roots under which the
\* Store holds their block and state, and every block root given to fork
\* choice add_block is stored together with the state under its state_root.
C7_ReferencedDataStored ==
    /\ CheckPointStored(canonical_head)
    /\ CheckPointStored(finalized_head)
    /\ \A block_root \in fork_choice :
        /\ block_root \in DOMAIN store.blocks
        /\ store.blocks[block_root].state_root \in DOMAIN store.states

\* fork_choice() has moved the canonical head to a block given to add_block.
C7_Witness ==
    \E t \in Threads :
        /\ local[t].op = "fork_choice"
        /\ InLog(t, "canonical_head.write")
        /\ canonical_head.beacon_block_root \in fork_choice
        /\ canonical_head.beacon_block_root = local[t].block_root

\* Whether the block under `root` is the block under `from` or is reached
\* from it by following previous_block_root links through the Store.
RECURSIVE IsAncestorOrSelf(_, _, _)
IsAncestorOrSelf(root, from, fuel) ==
    IF from = root THEN TRUE
    ELSE IF fuel = 0 \/ from \notin DOMAIN store.blocks THEN FALSE
    ELSE IsAncestorOrSelf(root, store.blocks[from].previous_block_root, fuel - 1)

\* C8: the finalized head's block is the canonical head's block or an
\* ancestor of it along previous_block_root links.
C8_FinalizedIsAncestorOfHead ==
    IsAncestorOrSelf(finalized_head.beacon_block_root,
                     canonical_head.beacon_block_root,
                     Cardinality(DOMAIN store.blocks))

\* The canonical head is two links above the finalized head.
C8_Witness ==
    /\ canonical_head.beacon_block_root # finalized_head.beacon_block_root
    /\ canonical_head.beacon_block.previous_block_root # finalized_head.beacon_block_root
    /\ canonical_head.beacon_block.previous_block_root \in fork_choice

\* C9: a process_block call on a block whose slot is greater than the working
\* state's slot returns FutureSlot with that slot and the block's slot; its
\* only access is the read of the working state, and Store, fork choice, both
\* heads and the working state are as they were.
C9_FutureSlotRejected ==
    [][\A t \in Threads :
        (/\ pc[t] = "idle"
         /\ local'[t].op = "process_block"
         /\ local'[t].block.slot > state.slot)
        => /\ pc'[t] = "done"
           /\ outcome'[t] = FutureSlot(state.slot, local'[t].block.slot)
           /\ log'[t] = <<"state.read">>
           /\ UNCHANGED shared]_vars

\* A call has returned FutureSlot carrying the two slots.
C9_Witness ==
    \E t \in ProcessBlockCalls :
        /\ pc[t] = "done"
        /\ outcome[t].reason = "FutureSlot"
        /\ outcome[t].block_slot = local[t].block.slot
        /\ outcome[t].present_slot < outcome[t].block_slot

\* C10: a process_block call on a block that is not from a future slot and
\* whose parent root is no key of a block in the Store returns
\* Ok(InvalidBlock(ParentUnknown)); it has only read, and Store, fork choice,
\* both heads and the working state are as they were.
C10_ParentUnknownRejected ==
    [][\A t \in Threads :
        (/\ pc[t] = "load_parent"
         /\ pc'[t] # "load_parent"
         /\ local'[t].parent_lookup # "DBError"
         /\ local[t].block.slot <= local[t].present_slot
         /\ local[t].block.previous_block_root \notin DOMAIN store.blocks)
        => /\ pc'[t] = "done"
           /\ outcome'[t] = InvalidBlock("ParentUnknown")
           /\ log'[t] = ReadsToParent
           /\ UNCHANGED shared]_vars

\* A call has returned ParentUnknown for a block that was not from a future
\* slot.
C10_Witness ==
    \E t \in ProcessBlockCalls :
        /\ pc[t] = "done"
        /\ outcome[t] = InvalidBlock("ParentUnknown")
        /\ local[t].block.slot <= local[t].present_slot
        /\ local[t].block.previous_block_root \notin DOMAIN store.blocks

\* The blocks of the tree: each is valid on its parent.
ValidBlocks == {n.block : n \in Tree}

\* The errors a call passes on from a collaborator (Store, fork choice, slot
\* clock, epoch transition, cache building).
CollaboratorErrors ==
    {Err(e) : e \in {"DBError", "ForkChoiceError", "UnableToReadSlot",
                     "BeaconStateError", "SlotProcessingError"}}

\* No collaborator failed during the call of thread t.
NoCollaboratorError(t) ==
    /\ local[t].bad_slot = -1
    /\ outcome[t] \notin CollaboratorErrors

\* C11: when a process_block call on a valid block B has returned
\* ParentUnknown, B's parent has since been accepted (stored with its state
\* and handed to fork choice), and B is submitted again with B.slot not above
\* the present slot, then the second call, if no collaborator fails during it,
\* returns Processed.
C11_ResubmissionProcessed ==
    \A t1, t2 \in ProcessBlockCalls :
        (/\ t1 # t2
         /\ pc[t1] = "done"
         /\ outcome[t1] = InvalidBlock("ParentUnknown")
         /\ local[t2].block = local[t1].block
         /\ local[t2].block \in ValidBlocks
         /\ local[t2].block.previous_block_root \in fork_choice
         /\ local[t2].block.slot <= local[t2].present_slot
         /\ pc[t2] = "done"
         /\ NoCollaboratorError(t2))
        => outcome[t2] = ValidBlock("Processed")

\* One caller holds ParentUnknown for a block; the block's parent was then
\* accepted, and the same block, submitted again, was Processed.
C11_Witness ==
    \E t1, t2 \in ProcessBlockCalls :
        /\ pc[t1] = "done"
        /\ outcome[t1] = InvalidBlock("ParentUnknown")
        /\ local[t1].parent_lookup = "absent"
        /\ local[t2].block = local[t1].block
        /\ local[t2].block.previous_block_root \in fork_choice
        /\ pc[t2] = "done"
        /\ outcome[t2] = ValidBlock("Processed")

\* The step with which the process_block call of thread t returns Ok after
\* the eager update (the head it saw was the block's parent).
EagerReturnStep(t) ==
    /\ local[t].op = "process_block"
    /\ pc[t] = "write_state"
    /\ pc'[t] = "done"
    /\ outcome'[t] = ValidBlock("Processed")
    /\ local[t].head_seen = Some(local[t].block.previous_block_root)

\* C12: when a process_block call on an accepted block B, whose parent root
\* was the canonical head's block root at the head test, returns Ok, the
\* canonical head is (B, root of B, post-state of B, root of that state) and
\* the working state is that post-state advanced by per-slot transitions to
\* the slot the call read from the slot clock.
C12_EagerUpdateInstalled ==
    [][\A t \in Threads :
        EagerReturnStep(t) =>
            LET block == local[t].block
                post == TransitionGates(block, Unwrap(local[t].parent_state), -1).state
            IN  /\ IsSome(post)
                /\ canonical_head' = CheckPoint(block, BlockRoot(block), Unwrap(post),
                                                StateRoot(Unwrap(post)))
                /\ state' = AdvanceState(Unwrap(post), local[t].clock_slot, -1).state]_vars

\* The accesses of a process_block call that accepts a block without the
\* eager update.
AcceptanceWithoutUpdate ==
    ReadsToState \o
    <<"store.put_block", "store.put_state", "fork_choice.add_block", "canonical_head.read">>

\* C13: a process_block call on an accepted block whose parent root differs
\* from the canonical head's block root at the head test returns Processed
\* there and then, with the block and its post-state in the Store and the
\* block's root given to fork choice; the call has written neither the
\* canonical head, nor the finalized head, nor the working state, and its
\* last step leaves all three as they were.
C13_SideBranchLeavesHeads ==
    [][\A t \in Threads :
        (/\ pc[t] = "check_head"
         /\ pc'[t] # "check_head"
         /\ canonical_head.beacon_block_root # local[t].block.previous_block_root)
        => LET block == local[t].block
               post == TransitionGates(block, Unwrap(local[t].parent_state), -1).state
           IN  /\ pc'[t] = "done"
               /\ outcome'[t] = ValidBlock("Processed")
               /\ IsSome(post)
               /\ StoreGetBlock(BlockRoot(block)) = Some(block)
               /\ StoreGetState(block.state_root) = post
               /\ BlockRoot(block) \in fork_choice
               /\ log'[t] = AcceptanceWithoutUpdate
               /\ UNCHANGED <<canonical_head, finalized_head, state, store, fork_choice>>]_vars

\* A call has returned Processed for a block that did not extend the head it
\* saw: the block is with fork choice, and the canonical head is another block.
C13_Witness ==
    \E t \in ProcessBlockCalls :
        /\ pc[t] = "done"
        /\ outcome[t] = ValidBlock("Processed")
        /\ IsSome(local[t].head_seen)
        /\ local[t].head_seen # Some(local[t].block.previous_block_root)
        /\ log[t] = AcceptanceWithoutUpdate
        /\ local[t].block_root \in fork_choice
        /\ canonical_head.beacon_block_root # local[t].block_root

\* The state a process_block call handed to per_block_processing (None when
\* the per-slot advance failed).
HandedState(l) == TransitionGates(l.block, Unwrap(l.parent_state), l.bad_slot).handed

\* The calls that have reached block application.
ReachedBlockApplication ==
    {t \in ProcessBlockCalls :
        local[t].state_lookup = "found" /\ IsSome(HandedState(local[t]))}

C15_OperationsComplete ==
    \A t \in Threads : (pc[t] \notin {"idle", "done"}) ~> (pc[t] = "done")

\* C16: when from_genesis has returned Ok, the canonical head and the
\* finalized head are both the genesis checkpoint (the genesis block, its
\* root, the genesis state, its root), and the Store returns the genesis
\* block under its block root and the genesis state under its state root.
C16_GenesisCheckpoint ==
    \A t \in Threads :
        (local[t].op = "from_genesis" /\ pc[t] = "done" /\ outcome[t] = OkUnit)
        => LET genesis_state == local[t].genesis_state
               genesis_block == local[t].genesis_block
               genesis == CheckPoint(genesis_block, BlockRoot(genesis_block),
                                     genesis_state, StateRoot(genesis_state))
           IN  /\ canonical_head = genesis
               /\ finalized_head = genesis
               /\ StoreGetBlock(BlockRoot(genesis_block)) = Some(genesis_block)
               /\ StoreGetState(StateRoot(genesis_state)) = Some(genesis_state)

\* from_genesis has returned Ok for a block that declares another state root
\* than the genesis state's, over a Store that held other items before.
C16_Witness ==
    \E t \in Threads :
        /\ local[t].op = "from_genesis"
        /\ pc[t] = "done"
        /\ outcome[t] = OkUnit
        /\ local[t].genesis_block.state_root # StateRoot(local[t].genesis_state)
        /\ Cardinality(DOMAIN store.blocks) = 2
        /\ canonical_head.beacon_block = local[t].genesis_block

\* The step with which thread t begins fork_choice() and gets a root from
\* find_head and an answer from the Store.
ForkChoiceAnswered(t) ==
    /\ pc[t] = "idle"
    /\ local'[t].op = "fork_choice"
    /\ IsSome(local'[t].new_head)
    /\ outcome'[t] # Err("DBError")

\* C17: fork_choice() compares the root find_head returned with the finalized
\* head's block root. When they are equal it returns Ok with canonical head
\* and working state as they were. When the block under the returned root, or
\* the state under that block's state_root, is not in the Store it returns
\* MissingBeaconBlock or MissingBeaconState, again with both as they were.
\* Otherwise its update of the canonical head writes the stored block, the
\* returned root, the stored state and the block's state_root, and its update
\* of the working state writes that state advanced to the slot read from the
\* slot clock.
C17_ForkChoiceInstallsFoundHead ==
    [][\A t \in Threads :
        /\ ForkChoiceAnswered(t) =>
              LET new_head == Unwrap(local'[t].new_head)
                  block_stored == new_head \in DOMAIN store.blocks
                  state_stored == /\ block_stored
                                  /\ store.blocks[new_head].state_root \in DOMAIN store.states
              IN  /\ UNCHANGED shared
                  /\ log'[t][1] = "finalized_head.read"
                  /\ log'[t][2] = "fork_choice.find_head"
                  /\ IF new_head = finalized_head.beacon_block_root
                     THEN pc'[t] = "done" /\ outcome'[t] = OkUnit
                     ELSE IF ~block_stored
                     THEN pc'[t] = "done" /\ outcome'[t] = Err("MissingBeaconBlock")
                     ELSE IF ~state_stored
                     THEN pc'[t] = "done" /\ outcome'[t] = Err("MissingBeaconState")
                     ELSE pc'[t] = "update_canonical_head"
        /\ (local[t].op = "fork_choice" /\ pc[t] # "idle" /\ pc'[t] # pc[t]) =>
              LET new_head == Unwrap(local[t].new_head)
                  block == store.blocks[new_head]
                  st == store.states[block.state_root]
              IN  /\ pc[t] = "update_canonical_head" =>
                        /\ canonical_head' = CheckPoint(block, new_head, st, block.state_root)
                        /\ UNCHANGED <<store, fork_choice, finalized_head, state>>
                  /\ (pc[t] = "write_state" /\ outcome'[t] = OkUnit) =>
                        /\ state' = AdvanceState(st, local[t].clock_slot, -1).state
                        /\ UNCHANGED <<store, fork_choice, finalized_head, canonical_head>>
                  /\ (pc'[t] = "done" /\ outcome'[t].res = "Err") => UNCHANGED shared]_vars

\* fork_choice() has returned Ok after moving the canonical head and the
\* working state to a block above the finalized head.
C17_Witness ==
    \E t \in Threads :
        /\ local[t].op = "fork_choice"
        /\ pc[t] = "done"
        /\ outcome[t] = OkUnit
        /\ local[t].new_head # Some(finalized_head.beacon_block_root)
        /\ canonical_head.beacon_block_root = Unwrap(local[t].new_head)
        /\ InLog(t, "state.write")
        /\ state.slot >= canonical_head.beacon_state.slot

\* The outcomes the sender of a block is to blame for.
ObjectivelyInvalid ==
    {o \in BlockProcessingOutcomes :
        \/ o.reason \in {"FutureSlot", "StateRootMismatch"}
        \/ o.reason = "PerBlockProcessingError" /\ o.error.variant = "Invalid"}

\* The outcomes that say nothing against the block.
Inconclusive ==
    {o \in BlockProcessingOutcomes :
        \/ o = ValidBlock("Processed")
        \/ o.reason \in {"ParentUnknown", "SlotProcessingError"}
        \/ o.reason = "PerBlockProcessingError" /\ o.error.variant = "BeaconStateError"}

\* C18: is_invalid() answers true for FutureSlot, StateRootMismatch and
\* PerBlockProcessingError(Invalid) and false for Processed, ParentUnknown,
\* SlotProcessingError and PerBlockProcessingError(BeaconStateError), which
\* are all the outcomes there are; sucessfully_processed() answers true for
\* ValidBlock and for nothing else; no outcome gets true from both.
C18_OutcomeClassification ==
    /\ ObjectivelyInvalid \cup Inconclusive = BlockProcessingOutcomes
    /\ ObjectivelyInvalid \cap Inconclusive = {}
    /\ \A t \in Threads :
        LET o == local[t].outcome
        IN  /\ Answers(t, "is_invalid") \subseteq {o \in ObjectivelyInvalid}
            /\ Answers(t, "sucessfully_processed") \subseteq {o.kind = "ValidBlock"}
            /\ ~(TRUE \in Answers(t, "is_invalid")
                 /\ TRUE \in Answers(t, "sucessfully_processed"))

\* Both methods have answered, for a block-application failure that is not
\* the block's fault on one thread and for one that is on the other.
C18_Witness ==
    \E t, u \in Threads :
        /\ local[t].outcome.reason = "PerBlockProcessingError"
        /\ local[t].outcome.error.variant = "BeaconStateError"
        /\ Answers(t, "is_invalid") = {FALSE}
        /\ Answers(t, "sucessfully_processed") = {FALSE}
        /\ local[u].outcome.reason = "PerBlockProcessingError"
        /\ local[u].outcome.error.variant = "Invalid"
        /\ Answers(u, "is_invalid") = {TRUE}
        /\ Answers(u, "sucessfully_processed") = {FALSE}

\* The state of a caller of per_slot_processing as it was before the last
\* call that returned Ok.
BeforeLastTransition(l) ==
    AdvanceState(l.start, l.start.slot + l.applied - 1, -1).state

\* C19: after N >= 1 calls of per_slot_processing that all returned Ok on a
\* state that was at slot S, the state is at slot S + N and its state-root
\* ring holds, at index (S + N - 1) mod ring length, the root of the state as
\* it was at slot S + N - 1, before the last call.
C19_TransitionsAdvanceAndCacheRoot ==
    \A t \in Threads :
        (local[t].applied >= 1 /\ pc[t] = "idle") =>
            LET l == local[t]
                S == l.start.slot
                N == l.applied
                before == BeforeLastTransition(l)
            IN  /\ l.state.slot = S + N
                /\ before.slot = S + N - 1
                /\ l.state.latest_state_roots[(S + N - 1) % SlotsPerHistoricalRoot]
                     = StateRoot(before)

\* Three calls have returned Ok on a state that started above slot 0: the
\* ring has been written all the way round.
C19_Witness ==
    \E t \in Threads :
        /\ pc[t] = "idle"
        /\ local[t].applied = MaxTransitions
        /\ local[t].start.slot > 0
        /\ local[t].state.slot = local[t].start.slot + MaxTransitions
        /\ Len(local[t].state.epochs) >= 1

\* The state a caller's last call of per_slot_processing was given: the one
\* before the last Ok for a caller that goes on, the one all the calls that
\* returned Ok led to for a caller whose last call failed.
GivenToLastCall(t) ==
    IF pc[t] = "done"
    THEN AdvanceState(local[t].start, local[t].start.slot + local[t].applied, -1).state
    ELSE BeforeLastTransition(local[t])

\* A caller whose last call of per_slot_processing ran the epoch transition.
LastCallRanEpoch(t) ==
    /\ pc[t] = "done" \/ local[t].applied >= 1
    /\ EpochBoundary(GivenToLastCall(t).slot)

\* C20 as stated: the epoch transition runs after the slot is incremented, on
\* a state that is already at the new slot.
C20_EpochSeesIncrementedSlot ==
    \A t \in Threads :
        (LastCallRanEpoch(t) /\ pc[t] = "idle") =>
            LET given == GivenToLastCall(t)
                l == local[t]
            IN  /\ l.state.history = given.history \o <<"cache", "epoch">>
                /\ l.state.epochs = Append(given.epochs, given.slot + 1)

\* C20, as the code has it: per_slot_processing caches the roots and
\* backfills the header, then runs the epoch transition when the slot after
\* the state's is the first of an epoch, on the state still at its old slot,
\* and increments the slot last; a failed epoch transition leaves the state
\* with the roots cached and the slot as it was.
C20_EpochBeforeIncrement ==
    \A t \in Threads :
        (pc[t] = "done" \/ local[t].applied >= 1) =>
            LET given == GivenToLastCall(t)
                l == local[t]
                cached ==
                    /\ l.state.latest_state_roots[RingIndex(given.slot)] = StateRoot(given)
                    /\ l.state.latest_block_header.state_root # ZeroHash
                    /\ l.state.latest_block_roots[RingIndex(given.slot)]
                         = TreeHashRoot(l.state.latest_block_header)
            IN  IF pc[t] = "done"
                THEN /\ EpochBoundary(given.slot)
                     /\ cached
                     /\ l.state.history = given.history \o <<"cache">>
                     /\ l.state.epochs = given.epochs
                     /\ l.state.slot = given.slot
                ELSE IF EpochBoundary(given.slot)
                THEN /\ cached
                     /\ l.state.history = given.history \o <<"cache", "epoch">>
                     /\ l.state.epochs = Append(given.epochs, given.slot)
                     /\ l.state.slot = given.slot + 1
                ELSE /\ cached
                     /\ l.state.history = given.history \o <<"cache">>
                     /\ l.state.epochs = given.epochs
                     /\ l.state.slot = given.slot + 1

\* One caller's last call ran the epoch transition and returned Ok, the
\* other's ran it and failed.
C20_Witness ==
    \E t, u \in Threads :
        /\ pc[t] = "idle"
        /\ LastCallRanEpoch(t)
        /\ Len(local[t].state.epochs) >= 1
        /\ pc[u] = "done"
        /\ outcome[u] = Err("EpochProcessingError")

\* How often `event` occurs in a history.
Occurrences(history, event) ==
    Cardinality({i \in DOMAIN history : history[i] = event})

\* C21: a call of per_slot_processing that returns Ok on a state at slot s has
\* run the epoch transition once when (s + 1) mod slots_per_epoch = 0 and not
\* at all otherwise; a call that returns an error of the epoch transition was
\* made on such a slot.
C21_EpochTransitionOncePerBoundary ==
    [][\A t \in Threads :
        (local'[t] # local[t]) =>
            LET s == local[t].state.slot
                ran == Occurrences(local'[t].state.history, "epoch")
                         - Occurrences(local[t].state.history, "epoch")
                seen == Len(local'[t].state.epochs) - Len(local[t].state.epochs)
            IN  IF pc'[t] = "done"
                THEN (s + 1) % SlotsPerEpoch = 0
                ELSE /\ ran = (IF (s + 1) % SlotsPerEpoch = 0 THEN 1 ELSE 0)
                     /\ seen = ran]_vars

\* One caller has made calls on both sides of an epoch's first slot: one that
\* ran the epoch transition and one that did not.
C21_Witness ==
    \E t \in Threads :
        /\ pc[t] = "idle"
        /\ local[t].applied >= 2
        /\ Occurrences(local[t].state.history, "epoch")
             > Occurrences(local[t].start.history, "epoch")
        /\ Occurrences(local[t].state.history, "epoch")
             - Occurrences(local[t].start.history, "epoch") < local[t].applied

\* C22: a call of per_slot_processing writes the root the state had before
\* the call into the latest block header's state_root when that field is the
\* zero hash, and leaves the field alone when it is not; the header's other
\* fields are never written.
C22_BackfillOnlyZeroStateRoot ==
    [][\A t \in Threads :
        (local'[t] # local[t]) =>
            LET before == local[t].state
                header == before.latest_block_header
                header_after == local'[t].state.latest_block_header
            IN  /\ header_after.state_root =
                      (IF header.state_root = ZeroHash THEN StateRoot(before)
                       ELSE header.state_root)
                /\ header_after = [header EXCEPT !.state_root = header_after.state_root]]_vars

\* A caller's first call has backfilled the header and a later call has found
\* it filled.
C22_Witness ==
    \E t \in Threads :
        /\ local[t].applied >= 2
        /\ local[t].start.latest_block_header.state_root = ZeroHash
        /\ local[t].state.latest_block_header.state_root = StateRoot(local[t].start)

\* The block a state was last given: the one whose temporary header is the
\* state's latest block header (with or without the backfilled state root).
LatestBlock(st) ==
    CHOOSE n \in Tree :
        TemporaryBlockHeader(n.block) = [st.latest_block_header EXCEPT !.state_root = ZeroHash]

\* The last block at or before a slot on the chain that leads to node n.
RECURSIVE BlockAtOrBefore(_, _)
BlockAtOrBefore(n, slot) ==
    IF n.block.slot <= slot \/ n.block = GenesisBlock THEN n
    ELSE BlockAtOrBefore(NodeOf(n.block.previous_block_root), slot)

\* The block root of a slot on the chain that leads to node n.
RootOnChain(n, slot) == BlockRoot(BlockAtOrBefore(n, slot).block)

\* The block root of a slot on the chain a state stands on.
RecordedRoot(st, slot) == RootOnChain(LatestBlock(st), slot)

\* A call of get_block_roots that has returned Ok.
ReturnedRoots(t) ==
    /\ local[t].op = "get_block_roots"
    /\ pc[t] = "done"
    /\ outcome[t].res = "Ok"

\* C23: when get_block_roots(earliest_slot, count, skip) returns Ok the list
\* has count roots, for slots that increase by skip + 1 from one root to the
\* next, and there is a chain of blocks on which every root is the block root
\* of its slot.
C23_RootsCountedSpacedRecorded ==
    \A t \in Threads :
        ReturnedRoots(t) =>
            LET l == local[t]
                roots == outcome[t].reason
                slots == Reversed(l.slots)
            IN  /\ Len(roots) = l.count
                /\ Len(slots) = l.count
                /\ \A i \in 1..(Len(slots) - 1) : slots[i + 1] = slots[i] + l.skip + 1
                /\ \E n \in Tree :
                      \A i \in 1..Len(roots) : roots[i] = RootOnChain(n, slots[i])

\* A slot whose block root the ring of st holds, or the ring of an older
\* state that the Store has under the oldest state root of st's ring, and
\* so on.
RECURSIVE Retained(_, _)
Retained(st, slot) ==
    \/ GetBlockRoot(st, slot) # None
    \/ LET root == GetStateRoot(st, st.slot - SlotsPerHistoricalRoot)
       IN  /\ root # None
           /\ Unwrap(root) \in DOMAIN store.states
           /\ store.states[Unwrap(root)].slot < st.slot
           /\ Retained(store.states[Unwrap(root)], slot)

\* The highest slot a call of get_block_roots asks for, and all of them.
HighestSlot(l) == l.earliest_slot + l.count * (l.skip + 1) - 1

RequestedSlots(l) == {HighestSlot(l) - i * (l.skip + 1) : i \in 0..(l.count - 1)}

\* C24: get_block_roots returns Ok only with count roots; when the highest
\* slot asked for is above the slot of the working state it cloned, or a slot
\* asked for below that state's slot is neither in its ring nor in the ring
\* of an older state the Store has, it returns SlotOutOfBounds.
C24_FullListOrSlotOutOfBounds ==
    \A t \in Threads :
        (local[t].op = "get_block_roots" /\ pc[t] = "done") =>
            LET l == local[t]
            IN  /\ outcome[t].res = "Ok" => Len(outcome[t].reason) = l.count
                /\ HighestSlot(l) > l.state.slot => outcome[t] = Err("SlotOutOfBounds")
                /\ (\E slot \in RequestedSlots(l) :
                        slot < l.state.slot /\ ~Retained(l.state, slot))
                     => outcome[t] = Err("SlotOutOfBounds")

\* A call has collected a root, found the next slot it needed out of reach,
\* and returned SlotOutOfBounds.
C24_Witness ==
    \E t \in Threads :
        /\ local[t].op = "get_block_roots"
        /\ pc[t] = "done"
        /\ outcome[t] = Err("SlotOutOfBounds")
        /\ HighestSlot(local[t]) <= local[t].state.slot
        /\ Len(local[t].roots) >= 1
        /\ Len(local[t].roots) < local[t].count
        /\ nfaults = 0

\* C25: the first root of a list get_block_roots(earliest_slot, count, skip)
\* returns with count >= 1 is the block root of slot earliest_slot on the
\* chain of the cloned working state.
C25_FirstRootIsEarliestSlot ==
    \A t \in Threads :
        (ReturnedRoots(t) /\ local[t].count >= 1) =>
            outcome[t].reason[1] = RecordedRoot(local[t].state, local[t].earliest_slot)



\* A step of a call of the given operations by thread t.
StepOf(t, ops) ==
    /\ local'[t].op \in ops
    /\ pc'[t] # pc[t] \/ local'[t] # local[t]

\* C26: no step of produce_block or of get_block_roots, whether the call
\* succeeds or fails, changes the working state, the canonical head, the
\* finalized head, the Store, the fork choice or the operation pool.
C26_ProduceAndRootsChangeNothing ==
    [][\A t \in Threads :
          StepOf(t, {"produce_block", "get_block_roots"}) => UNCHANGED shared]_vars

\* One thread has produced a block that carries operations of the pool and
\* the other has been given a list of block roots.
C26_Witness ==
    \E t, u \in Threads :
        /\ local[t].op = "produce_block"
        /\ pc[t] = "done"
        /\ outcome[t].res = "Ok"
        /\ BodyOperations(Unwrap(local[t].block).body) # {}
        /\ local[u].op = "get_block_roots"
        /\ pc[u] = "done"
        /\ outcome[u].res = "Ok"
        /\ local[u].count >= 1


\* C27: every list of operations of a produced block is selected against
\* the state the block is built on, the clone produce_block took of the
\* working state.
C27_OneSnapshotForAllOperations ==
    \A t \in Threads :
        local[t].op = "produce_block" =>
            \A kind \in OperationKinds :
                local[t].read[kind] \in {None, Some(local[t].state)}


\* A call of produce_block by t has returned Ok((block, state)).
Produced(t) ==
    /\ local[t].op = "produce_block"
    /\ pc[t] = "done"
    /\ outcome[t].res = "Ok"

\* C28: the block produce_block returns has the slot of the cloned working
\* state, the block root the clone's ring holds for the slot before as its
\* previous block root and the empty signature; the state returned is the
\* clone after the block was applied to it without verifying the proposer's
\* signature, and the block's state root is the root of that state.
C28_ProducedBlockAndState ==
    \A t \in Threads :
        Produced(t) =>
            LET clone == local[t].state
                block == Unwrap(local[t].block)
                post == Unwrap(local[t].post_state)
                applied == PerBlockProcessingWithoutVerifyingBlockSignature(
                               clone, [block EXCEPT !.state_root = ZeroHash])
            IN  /\ block.slot = clone.slot
                /\ block.previous_block_root = clone.latest_block_roots[RingIndex(clone.slot - 1)]
                /\ block.signature = EmptySignature
                /\ applied.ok
                /\ post = applied.state
                /\ post # clone
                /\ block.state_root = StateRoot(post)

\* A block has been produced on a state that went through a per-slot
\* transition since its last block, and the block carries operations.
C28_Witness ==
    \E t \in Threads :
        /\ Produced(t)
        /\ local[t].state.slot >= 1
        /\ Unwrap(local[t].block).body.attestations # {}
        /\ Unwrap(local[t].block).state_root # ZeroHash
        /\ nfaults = 0


WrittenCheckPoints == {CheckPointOf(n) : n \in Tree}

\* What a reader has seen through its guard is, field for field, one of the
\* checkpoints written.
SeenOneUpdate(t) ==
    \E written \in WrittenCheckPoints :
        \A i \in 1..Len(local[t].seen) : local[t].seen[i] = written[CheckPointFields[i]]

\* C30: what a caller reads through the guard head() or finalized_head()
\* returned is the four fields of one single update, never fields of two;
\* a step of update_canonical_head leaves the finalized head as it is and a
\* step of update_finalized_head leaves the canonical head as it is.
C30_CheckPointsUpdatedWhole ==
    [][/\ \A t \in Threads : local'[t].op = "head" => SeenOneUpdate(t)'
       /\ \A t \in Threads :
             StepOf(t, {"update_head"}) =>
                 IF local'[t].lock = "canonical_head"
                 THEN finalized_head' = finalized_head
                 ELSE canonical_head' = canonical_head]_vars

\* A reader took its guard on the canonical head after an update had
\* replaced the genesis checkpoint and read all four fields, the finalized
\* head still being that of genesis.
C30_Witness ==
    \E t \in Threads :
        /\ local[t].op = "head"
        /\ local[t].lock = "canonical_head"
        /\ pc[t] = "done"
        /\ Len(local[t].seen) = Len(CheckPointFields)
        /\ local[t].seen[2] # finalized_head.beacon_block_root
        /\ \E u \in Threads : local[u].op = "update_head" /\ pc[u] = "done"


\* Thread t is inside update_state.
InUpdateState(t) == pc[t] \in {"read_slot_clock", "write_state"}

\* The supplied state advanced to the slot the call read from the clock, all
\* per-slot transitions succeeding.
FullyAdvanced(t) == AdvanceState(Unwrap(local[t].state), local[t].clock_slot, -1).state

\* C31: a step of update_state either leaves the working state as it is or
\* replaces it, in that one step, by the supplied state advanced to the slot
\* the call read from the slot clock; what it installs is never below that
\* slot, and when the call returns an error it has installed nothing.
C31_UpdateStateInstallsAdvancedState ==
    [][\A t \in Threads :
          (InUpdateState(t) /\ pc'[t] # pc[t]) =>
              \/ state' = state /\ (pc[t] = "write_state" => outcome'[t].res = "Err")
              \/ /\ pc[t] = "write_state"
                 /\ outcome'[t].res = "Ok"
                 /\ state' = FullyAdvanced(t)
                 /\ state'.slot >= local[t].clock_slot]_vars

\* A call has installed a state that it advanced by two slots or more, so
\* that an intermediate slot existed and was never installed.
C31_Witness ==
    \E t \in Threads :
        /\ pc[t] = "done"
        /\ outcome[t].res = "Ok"
        /\ local[t].op \in {"process_block", "fork_choice"}
        /\ "state" \in DOMAIN local[t]
        /\ IsSome(local[t].state)
        /\ Unwrap(local[t].state).slot + 2 <= state.slot
        /\ state = FullyAdvanced(t)


\* Thread t has constructed a fresh instance with from_genesis over the
\* Store of a chain whose canonical head was the first block, nothing has
\* failed and nothing has been called since.
RestartedOverFirstBlock(t) ==
    /\ local[t].op = "from_genesis"
    /\ pc[t] = "done"
    /\ outcome[t].res = "Ok"
    /\ "before" \in DOMAIN local[t]
    /\ local[t].before.beacon_block = FirstBlock
    /\ ncalls = local[t].call
    /\ nfaults = 0

\* C32: after the block of slot 1 on genesis was accepted and became the
\* head, an instance constructed by from_genesis over the same Store has its
\* canonical head at slot 1, at that block and root, and the block can be
\* read from the Store by its root.
C32_RestartRestoresHead ==
    \A t \in Threads :
        RestartedOverFirstBlock(t) =>
            /\ canonical_head.beacon_block.slot = 1
            /\ canonical_head.beacon_block = FirstBlock
            /\ canonical_head.beacon_block_root = BlockRoot(FirstBlock)
            /\ StoreGetBlock(BlockRoot(FirstBlock)) = Some(FirstBlock)


\* Thread t has had the exit verified, by verify_exit_time_independent_only
\* (only = TRUE) or by verify_exit.
ExitVerified(t, only) ==
    /\ local[t].op = "verify_exit"
    /\ pc[t] = "done"
    /\ local[t].time_independent_only = only

\* C33: with the registry and the fork fixed, the result of
\* verify_exit_time_independent_only for an exit is the same at every slot of
\* the state, and an exit it rejects is rejected by verify_exit against every
\* state of the same or a later slot.
C33_TimeIndependentResult ==
    \A t, u \in Threads :
        /\ (ExitVerified(t, TRUE) /\ ExitVerified(u, TRUE)) => outcome[t] = outcome[u]
        /\ (/\ ExitVerified(t, TRUE)
            /\ ExitVerified(u, FALSE)
            /\ outcome[t].res = "Err"
            /\ local[u].state.slot >= local[t].state.slot) => outcome[u].res = "Err"


\* Thread t has called get_permutated_index.
Permutated(t) == local[t].op = "get_permutated_index" /\ pc[t] = "done"

\* C34: for one seed, round count and list size from 1 to 2^24, every index
\* get_permutated_index returns is below the list size and two different
\* indices below the list size are never given the same result.
C34_PermutationOfIndices ==
    \A t, u \in Threads :
        (/\ Permutated(t)
         /\ Permutated(u)
         /\ local[t].list_size \in 1..TwoPow24
         /\ Unwrap(local[t].index) < local[t].list_size
         /\ Unwrap(local[u].index) < local[u].list_size) =>
            /\ outcome[t].res = "Some"
            /\ outcome[t].reason \in 0..(local[t].list_size - 1)
            /\ Unwrap(local[t].index) # Unwrap(local[u].index)
                  => outcome[t].reason # outcome[u].reason

\* Two different indices of a list of three went through two rounds, and
\* one of them was moved.
C34_Witness ==
    \E t, u \in Threads :
        /\ Permutated(t)
        /\ Permutated(u)
        /\ local[t].list_size = MaxListSize
        /\ local[t].shuffle_round_count = MaxRounds
        /\ outcome[t].res = "Some"
        /\ outcome[u].res = "Some"
        /\ Unwrap(local[t].index) # Unwrap(local[u].index)
        /\ outcome[t].reason # Unwrap(local[t].index)


\* C35: get_permutated_index returns None when the list size is 0, the index
\* is not below the list size, or the list size is above 2^24 or above half
\* of the largest usize, and Some in every other case, whatever the seed and
\* the round count.
C35_NoneExactlyWhenRefused ==
    \A t \in Threads :
        Permutated(t) =>
            LET index == Unwrap(local[t].index)
                list_size == local[t].list_size
            IN  IF \/ list_size = 0
                   \/ index >= list_size
                   \/ list_size > TwoPow24
                   \/ list_size > UsizeMaxHalf
                THEN outcome[t] = NoIndex
                ELSE outcome[t].res = "Some"

\* On the largest list allowed, the last index was given a result and the
\* index equal to the list size was refused.
C35_Witness ==
    \E t, u \in Threads :
        /\ Permutated(t)
        /\ Permutated(u)
        /\ local[t].list_size = TwoPow24
        /\ local[t].shuffle_round_count >= 1
        /\ Unwrap(local[t].index) = TwoPow24 - 1
        /\ outcome[t].res = "Some"
        /\ Unwrap(local[u].index) = TwoPow24
        /\ outcome[u] = NoIndex


\* The call thread t has returned from wrote the canonical head.
ChangedHead(t) ==
    /\ local[t].op \in {"process_block", "fork_choice"}
    /\ pc[t] = "done"
    /\ Occurrences(log[t], "canonical_head.write") >= 1

\* C36: a call of process_block or fork_choice that has returned, with Ok or
\* with an error, and has written the canonical head has also written the
\* working state.
C36_HeadAndStateChangeTogether ==
    \A t \in Threads : ChangedHead(t) => Occurrences(log[t], "state.write") >= 1



\* C37: when fork_choice(), the only call made on the chain, has returned
\* Ok, the canonical head's block is the block the Store holds under the
\* root find_head returned, also when that root is the finalized head's.
C37_HeadIsFoundHead ==
    \A t \in Threads :
        (/\ local[t].op = "fork_choice"
         /\ pc[t] = "done"
         /\ outcome[t] = OkUnit
         /\ ncalls = 1) =>
            /\ canonical_head.beacon_block_root = Unwrap(local[t].new_head)
            /\ StoreGetBlock(Unwrap(local[t].new_head)) = Some(canonical_head.beacon_block)

\* The roots of a returned list that the loop read from a block-root ring,
\* the working state's or a loaded state's: those of the slots below the
\* slot of the cloned working state.
FromRing(l, i) == Reversed(l.slots)[i] < l.state.slot

\* C38: every root of a list get_block_roots returns that was read from a
\* block-root ring, the cloned state's or that of an older state loaded from
\* the Store under the oldest retained state root, is the root the chain of
\* the cloned state has for the slot it was read for, as a history that keeps
\* the block root of every slot would give it.
C38_RootsAsUnboundedHistory ==
    \A t \in Threads :
        ReturnedRoots(t) =>
            LET l == local[t]
                roots == outcome[t].reason
                slots == Reversed(l.slots)
            IN  /\ Len(roots) = Len(slots)
                /\ \A i \in 1..Len(roots) :
                      FromRing(l, i) => roots[i] = RecordedRoot(l.state, slots[i])

\* A returned list holds the root of a block above genesis for a slot that
\* the ring of the cloned state no longer retains.
C38_Witness ==
    \E t \in Threads :
        /\ ReturnedRoots(t)
        /\ \E i \in 1..Len(outcome[t].reason) :
              /\ FromRing(local[t], i)
              /\ GetBlockRoot(local[t].state, Reversed(local[t].slots)[i]) = None
              /\ outcome[t].reason[i] # BlockRoot(GenesisBlock)

\* The conditions of a valid exit in the order they are named, each with the
\* error of its failure; the validator is looked at only when the index is
\* in the registry.
ExitConditions(st, exit) ==
    LET known == exit.validator_index < Len(st.validator_registry)
        validator == st.validator_registry[exit.validator_index + 1]
    IN  << <<known, "ValidatorUnknown">>,
           <<known /\ validator.exit_epoch = FarFutureEpoch, "AlreadyExited">>,
           <<known /\ ~validator.initiated_exit, "AlreadyInitiatedExited">>,
           <<CurrentEpoch(st) >= exit.epoch, "FutureEpoch">>,
           <<known /\ EpochOf(st.slot) - validator.activation_epoch
                          >= PersistentCommitteePeriod, "TooYoungToLeave">>,
           <<known /\ exit.signature =
                          Signature(SignedRoot(exit),
                                    GetDomain(exit.epoch, "Exit", st.fork),
                                    validator.pubkey), "BadSignature">> >>

\* The conditions that do not hold.
FailingConditions(st, exit) ==
    {i \in 1..Len(ExitConditions(st, exit)) : ~ExitConditions(st, exit)[i][1]}

\* C40: verify_exit returns Ok exactly when the validator index is in the
\* registry, the validator's exit epoch is the far-future epoch, it has not
\* initiated an exit, the state's current epoch is at least the exit's epoch,
\* the epoch of the state's slot minus the activation epoch is at least the
\* persistent committee period and the signature verifies over the exit's
\* signed root under the Exit domain at the exit's epoch; otherwise it
\* returns the error of the first of these conditions, in this order, that
\* does not hold.
C40_OkOrFirstFailingCheck ==
    \A t \in Threads :
        ExitVerified(t, FALSE) =>
            LET failing == FailingConditions(local[t].state, local[t].exit)
                first == CHOOSE i \in failing : \A j \in failing : i <= j
            IN  /\ outcome[t] = OkUnit <=> failing = {}
                /\ failing # {} =>
                      outcome[t] = ExitInvalid(ExitConditions(local[t].state,
                                                              local[t].exit)[first][2])

\* verify_exit has accepted one caller's exit and has rejected the other
\* caller's, in a state of another slot in which two of the conditions do
\* not hold.
C40_Witness ==
    \E t, u \in Threads :
        /\ ExitVerified(t, FALSE)
        /\ outcome[t] = OkUnit
        /\ ExitVerified(u, FALSE)
        /\ outcome[u].res = "Err"
        /\ Cardinality(FailingConditions(local[u].state, local[u].exit)) >= 2

\* Thread t is inside a call of get_block_roots.
InGetBlockRoots(t) == local[t].op = "get_block_roots" /\ pc[t] \notin {"done", "panicked"}

\* Every call of get_block_roots comes to an end, and an iteration of its
\* loop pushes a root only while the list has fewer than count roots.
WalkEndsWithinCount ==
    /\ \A t \in Threads : InGetBlockRoots(t) ~> ~InGetBlockRoots(t)
    /\ [][\A t \in Threads :
             (pc[t] = "block_roots.loop" /\ Len(local'[t].roots) > Len(local[t].roots))
                 => Len(local[t].roots) < local[t].count]_vars

\* C39: a call of get_block_roots, whatever earliest_slot, count and skip it
\* is given and whatever the Store holds, has not ended in any other way
\* than by returning Ok or an error, and its list holds no roots beyond
\* count, nor beyond the one of the head block when count is zero.
C39_EndsWithOkOrError ==
    \A t \in Threads :
        local[t].op = "get_block_roots" =>
            /\ pc[t] \in {"done", "panicked"} => outcome[t].res \in {"Ok", "Err"}
            /\ Len(local[t].roots) <= Max(local[t].count, 1)

====
